---- MODULE Spec2Model ----
(***************************************************************************)
(* Content storage and cascading deletion of docs.rs (sqlx port).          *)
(*                                                                         *)
(*   Spec        the relational blob store: one Storage Transaction at a   *)
(*               time on its own pooled connection (begin, store_batch,    *)
(*               delete_prefix, complete, or the handle dropped), and      *)
(*               get/exists on other connections, which read the           *)
(*               committed table only (read committed).                    *)
(*   SpecDelete  delete_crate / delete_version over the catalog and the    *)
(*               files table, each call one step.                          *)
(*   SpecDeleteAnyVersion  the same calls with any version string.         *)
(*   SpecDeleteSteps  the same calls statement by statement, with a reader *)
(*               on another connection.                                    *)
(*   SpecStored  get/exists on rows that any writer may have left.         *)
(*   SpecPool    Pool::get, the lease of a connection and its release.     *)
(*   SpecDates   committed writes and column date_updated.                 *)
(*   SpecOrder   store_batch and delete_prefix in either order within one  *)
(*               transaction.                                              *)
(*   SpecBridge  static RUNTIME and Blocking::block by several threads.    *)
(*   SpecPoolNew Pool::new on a connection string and a backend.           *)
(*   SpecBlacklist  is_blacklisted, add_crate, remove_crate.               *)
(*   SpecPriority   get / set / remove over table crate_priorities.        *)
(*   SpecLimits  Limits::for_crate over table sandbox_overrides.           *)
(*   SpecDeleteCallers  the connections that concurrent deletions hold.    *)
(*   SpecDeleteRace     delete_crate by several callers, get_id apart.     *)
(*   SpecBlacklistRace  add_crate by several callers, check and INSERT     *)
(*               apart.                                                    *)
(*                                                                         *)
(* Texts (paths, prefixes, crate names) are tuples of one-character        *)
(* strings, so that LIKE matching and the escaping of a prefix are         *)
(* computed character by character.  The Prometheus counters are not       *)
(* modelled: no operation reads them.                                      *)
(***************************************************************************)
EXTENDS Integers, Sequences, FiniteSets, TLC

VARIABLES
    files,        \* the committed rows of table files: path -> row
    txState,      \* the Storage Transaction: "none", "open" or "aborted"
    txFiles,      \* table files as the open transaction sees it
    batchFailed,  \* a store_batch of the current transaction returned Err
    last,         \* the most recent call, its arguments and what it returned
    crates,       \* catalog: crate name -> [id, latest]
    releases,     \* catalog: set of [id, crate_id, version, release_time]
    deps,         \* dependent tables: table name -> set of release ids with rows
    owners,       \* owner_rels: crate ids with an ownership row
    sandbox,      \* sandbox_overrides: crate names with an override row
    cascade,      \* the deletion running statement by statement, or Idle
    pool,         \* the connection pool: live and idle connections, leases, callers
    clock,        \* the time of the database server
    dateUpdated,  \* column date_updated of the committed rows of files: path -> time
    bridge,       \* the static RUNTIME and the threads that call block()
    blacklisted_crates,  \* table blacklisted_crates: the crate names listed
    crate_priorities,    \* table crate_priorities: its rows in the order of a scan
    sandbox_overrides,   \* table sandbox_overrides: crate name -> its override row
    deleters,     \* the callers inside delete_crate / delete_version: their phase
    adders        \* the callers inside add_crate: between its check and its INSERT

storeVars == <<files, txState, txFiles, batchFailed>>
catalogVars == <<crates, releases, deps, owners, sandbox>>
procVars == <<bridge, deleters, adders>>
sideVars == <<procVars, blacklisted_crates, crate_priorities, sandbox_overrides>>
moreVars == <<clock, dateUpdated, sideVars>>
otherVars == <<cascade, pool, moreVars>>
coreVars == <<storeVars, catalogVars, cascade, pool, clock, dateUpdated>>
vars == <<files, txState, txFiles, batchFailed, last, crates, releases, deps, owners, sandbox,
          cascade, pool, clock, dateUpdated, bridge, blacklisted_crates, crate_priorities,
          sandbox_overrides, deleters, adders>>

\* No deletion is between its BEGIN and its return
Idle == [state |-> "idle"]

\* config.max_pool_size
MaxPoolSize == 2
\* The threads that call Pool::get
NumCallers == 3
Callers == 1 .. NumCallers
\* Names for the connections the pool opens
ConnIds == 1 .. MaxPoolSize + 1

\* The pool with its first n connections open and idle, no caller in get
PoolWith(n) ==
    [live |-> 1 .. n, idle |-> 1 .. n, leases |-> {}, tx |-> {},
     at |-> [c \in Callers |-> "out"]]

\* A caller that is not inside delete_crate / delete_version
NoDelete == [phase |-> "none"]

\* A caller that is not inside add_crate
NoAdd == [phase |-> "none"]

\* The threads that call block()
NumThreads == 2
Threads == 1 .. NumThreads

\* A thread that is not inside block()
Outside == [pc |-> "outside"]

\* RUNTIME before its first use: the Lazy cell is empty, no Runtime was built
Unused ==
    [lazy |-> "incomplete", created |-> 0, exited |-> FALSE,
     threads |-> [t \in Threads |-> Outside]]

(***************************************************************************)
(* Bounds and input sets                                                   *)
(***************************************************************************)
\* longest batch handed to store_batch
MaxBatch == 2
\* greatest small max_size handed to get (contents are 1 and 2 bytes long)
MaxSizeArg == 3

\* std::i32::MAX, the ceiling get clamps max_size to
I32_MAX == 2147483647

\* Paths of the blob store: a plain one, which the pattern "a_" matches though
\* it does not start with "a_", and one that holds the LIKE escape character.
Paths == { <<"a", "b">>, <<"a", "\\">> }

\* Prefixes handed to delete_prefix: plain, with each LIKE metacharacter,
\* with the escape character, and one that no path starts with.
Prefixes == { <<"a">>, <<"a", "b">>, <<"a", "_">>, <<"a", "%">>, <<"a", "\\">>, <<"b">> }

\* CompressionAlgorithm values a caller can put in a Blob
Algorithms == { "zstd" }

\* The two payloads written: they differ in mime, content and compression,
\* so a row mixing an old and a new write equals neither.
Payloads ==
    { [mime |-> "text/html", content |-> <<1>>, compression |-> <<>>],
      [mime |-> "text/css", content |-> <<1, 2>>, compression |-> <<"zstd">>] }

\* Blob values handed to store_batch (date_updated is not sent by the INSERT)
Blobs ==
    { [path |-> p, mime |-> y.mime, content |-> y.content, compression |-> y.compression]
        : p \in Paths, y \in Payloads }

RECURSIVE SeqsUpTo(_, _)
SeqsUpTo(S, n) ==
    IF n = 0 THEN { <<>> }
    ELSE LET shorter == SeqsUpTo(S, n - 1)
         IN  shorter \cup { Append(s, x) : s \in { t \in shorter : Len(t) = n - 1 }, x \in S }

Batches == SeqsUpTo(Blobs, MaxBatch)

\* max_size arguments: the small ones and the greatest value TLC's integers hold
MaxSizes == (0 .. MaxSizeArg) \cup { I32_MAX }

EmptyTable == [p \in {} |-> 0]

(***************************************************************************)
(* Pure parts of storage/database.rs                                       *)
(***************************************************************************)
\* CompressionAlgorithm as i32
AlgCode(alg) == CASE alg = "zstd" -> 0

\* i32 -> CompressionAlgorithm (TryFrom): the codes that convert
ValidCodes == { AlgCode(a) : a \in Algorithms }

CodeAlg(code) == CHOOSE a \in Algorithms : AlgCode(a) = code

\* A store that binds NULL for every compression
CompressionCode_Null(compression) == << >>

\* blob.compression.map(|alg| alg as i32)
CompressionCode(compression) ==
    IF compression = <<>> THEN <<>> ELSE << AlgCode(compression[1]) >>

\* The column values the INSERT binds: $2, $3, $4
RowOf(blob) ==
    [mime |-> blob.mime, content |-> blob.content,
     compression |-> CompressionCode(blob.compression)]

\* An upsert whose DO UPDATE sets content alone
UpsertRow_ContentOnly(table, blob) ==
    [p \in DOMAIN table \cup {blob.path} |->
        IF p # blob.path THEN table[p]
        ELSE IF p \in DOMAIN table THEN [table[p] EXCEPT !.content = blob.content]
        ELSE RowOf(blob)]

\* INSERT INTO files ... ON CONFLICT (path) DO UPDATE SET mime, content, compression
UpsertRow(table, blob) ==
    [p \in DOMAIN table \cup {blob.path} |->
        IF p = blob.path THEN RowOf(blob) ELSE table[p]]

\* The first n statements of the loop of store_batch, in order
RECURSIVE StoreStatements(_, _, _)
StoreStatements(table, batch, n) ==
    IF n = 0 THEN table
    ELSE UpsertRow(StoreStatements(table, batch, n - 1), batch[n])

\* prefix.replace('%', "\\%")
RECURSIVE EscapePercent(_)
EscapePercent(s) ==
    IF s = <<>> THEN <<>>
    ELSE (IF Head(s) = "%" THEN <<"\\", "%">> ELSE << Head(s) >>) \o EscapePercent(Tail(s))

\* format!("{}%", prefix.replace('%', "\\%"))
LikePattern(prefix) == EscapePercent(prefix) \o <<"%">>

\* s LIKE pat in PostgreSQL, the escape character being the backslash:
\* '%' matches any run, '_' any one character, '\' c the character c.
RECURSIVE LikeMatch(_, _)
LikeMatch(s, pat) ==
    IF pat = <<>> THEN s = <<>>
    ELSE IF Head(pat) = "\\"
    THEN /\ Len(pat) >= 2
         /\ s # <<>>
         /\ Head(s) = pat[2]
         /\ LikeMatch(Tail(s), SubSeq(pat, 3, Len(pat)))
    ELSE IF Head(pat) = "%"
    THEN \/ LikeMatch(s, Tail(pat))
         \/ (s # <<>> /\ LikeMatch(Tail(s), pat))
    ELSE IF Head(pat) = "_"
    THEN s # <<>> /\ LikeMatch(Tail(s), Tail(pat))
    ELSE s # <<>> /\ Head(s) = Head(pat) /\ LikeMatch(Tail(s), Tail(pat))

\* DELETE FROM files WHERE path LIKE $1
DeleteLike(table, pat) ==
    [p \in { q \in DOMAIN table : ~LikeMatch(q, pat) } |-> table[p]]

\* The statement of delete_prefix
DeletePrefixStatement(table, prefix) == DeleteLike(table, LikePattern(prefix))

\* max_size.min(std::i32::MAX as usize) as i32
ClampSize(max_size) == IF max_size < I32_MAX THEN max_size ELSE I32_MAX

\* A size test that also refuses a content of exactly the limit
IsTooBig_OffByOne(content, limit) == Len(content) >= limit

\* (LENGTH(content) > $2) AS "is_too_big!"
IsTooBig(content, limit) == Len(content) > limit

\* DatabaseBackend::get: the row by path, the size test made by the query,
\* then the conversion of the compression code
GetResult(table, path, max_size) ==
    IF path \notin DOMAIN table THEN [kind |-> "PathNotFound"]
    ELSE LET row == table[path]
             is_too_big == IsTooBig(row.content, ClampSize(max_size))
         IN  IF is_too_big THEN [kind |-> "SizeLimitReached"]
             ELSE IF row.compression # <<>> /\ row.compression[1] \notin ValidCodes
             THEN [kind |-> "panic"]
             ELSE [kind |-> "Ok",
                   blob |-> [path |-> path, mime |-> row.mime, content |-> row.content,
                             compression |-> IF row.compression = <<>> THEN <<>>
                                             ELSE << CodeAlg(row.compression[1]) >>]]

\* An existence probe that compares the count with >= 0
ExistsResult_AtLeastZero(table, path) ==
    Cardinality({ p \in DOMAIN table : p = path }) >= 0

\* DatabaseBackend::exists: SELECT COUNT(*) > 0 FROM files WHERE path = $1
ExistsResult(table, path) == Cardinality({ p \in DOMAIN table : p = path }) > 0

(***************************************************************************)
(* The Storage Transaction                                                 *)
(***************************************************************************)
\* start_connection and start_storage_transaction: BEGIN on a leased connection
Begin ==
    /\ txState = "none"
    /\ txState' = "open"
    /\ txFiles' = files
    /\ batchFailed' = FALSE
    /\ last' = [op |-> "begin"]
    /\ UNCHANGED <<files, catalogVars, otherVars>>

\* A transaction that a failed statement leaves as it was, the statements
\* before it still pending
TxAfterError_StaysOpen(state) == state

\* What a statement that fails leaves of the transaction: PostgreSQL aborts
\* it, every later statement fails and COMMIT rolls back.
TxAfterError(state) == "aborted"

\* store_batch(batch): the INSERTs run in order and the first one that fails
\* returns Err through `?`; failAt names it (0: none fails).  In an aborted
\* transaction the first statement fails.
StoreBatch(batch, failAt) ==
    /\ txState \in {"open", "aborted"}
    /\ failAt \in 0 .. Len(batch)
    /\ LET fails == IF txState = "aborted" /\ batch # <<>> THEN 1 ELSE failAt
       IN  /\ txState = "aborted" => failAt = 0
           /\ IF fails = 0
              THEN /\ txFiles' = StoreStatements(txFiles, batch, Len(batch))
                   /\ UNCHANGED <<txState, batchFailed>>
              ELSE /\ txState' = TxAfterError(txState)
                   /\ txFiles' = IF TxAfterError(txState) = "aborted" THEN files
                                 ELSE StoreStatements(txFiles, batch, fails - 1)
                   /\ batchFailed' = TRUE
           /\ last' = [op |-> "store_batch", batch |-> batch, ok |-> fails = 0,
                       done |-> IF fails = 0 THEN Len(batch) ELSE fails - 1]
    /\ UNCHANGED <<files, catalogVars, otherVars>>

\* delete_prefix(prefix): one DELETE; it fails in an aborted transaction
DeletePrefix(prefix) ==
    /\ txState \in {"open", "aborted"}
    /\ IF txState = "open"
       THEN /\ txFiles' = DeletePrefixStatement(txFiles, prefix)
            /\ last' = [op |-> "delete_prefix", prefix |-> prefix, ok |-> TRUE]
       ELSE /\ txFiles' = txFiles
            /\ last' = [op |-> "delete_prefix", prefix |-> prefix, ok |-> FALSE]
    /\ UNCHANGED <<files, txState, batchFailed, catalogVars, otherVars>>

\* What COMMIT leaves in the table
CommitTable(committed, pending, state) ==
    IF state = "open" THEN pending ELSE committed

\* complete(): COMMIT.  On an aborted transaction the server rolls back, and
\* the call returns Ok (the server answered) or Err (the connection is lost).
Complete(ok) ==
    /\ txState \in {"open", "aborted"}
    /\ txState = "open" => ok
    /\ files' = CommitTable(files, txFiles, txState)
    /\ txFiles' = files'
    /\ txState' = "none"
    /\ batchFailed' = FALSE
    /\ last' = [op |-> "complete", ok |-> ok, committed |-> txState = "open"]
    /\ UNCHANGED <<catalogVars, otherVars>>

\* A handle whose drop commits
DropTable_Commits(committed, pending) == pending

\* What dropping the handle leaves in the table: ROLLBACK
DropTable(committed, pending) == committed

\* The transaction handle is dropped without complete(): sqlx rolls back
Discard ==
    /\ txState \in {"open", "aborted"}
    /\ files' = DropTable(files, txFiles)
    /\ txFiles' = files'
    /\ txState' = "none"
    /\ batchFailed' = FALSE
    /\ last' = [op |-> "discard", dropped |-> txFiles # files]
    /\ UNCHANGED <<catalogVars, otherVars>>

\* get(path, max_size) on a connection of its own
Get(path, max_size) ==
    /\ last' = [op |-> "get", path |-> path, max_size |-> max_size,
                result |-> GetResult(files, path, max_size)]
    /\ UNCHANGED <<storeVars, catalogVars, otherVars>>

\* exists(path) on a connection of its own
Exists(path) ==
    /\ last' = [op |-> "exists", path |-> path, result |-> ExistsResult(files, path)]
    /\ UNCHANGED <<storeVars, catalogVars, otherVars>>

\* The state of the parts that a specification does not exercise
MoreInit ==
    /\ clock = 0
    /\ dateUpdated = EmptyTable
    /\ bridge = Unused
    /\ blacklisted_crates = {}
    /\ crate_priorities = << >>
    /\ sandbox_overrides = << >>
    /\ deleters = [c \in Callers |-> NoDelete]
    /\ adders = [c \in Callers |-> NoAdd]

Init ==
    /\ files = EmptyTable
    /\ txState = "none"
    /\ txFiles = EmptyTable
    /\ batchFailed = FALSE
    /\ last = [op |-> "none"]
    /\ crates = EmptyTable
    /\ releases = {}
    /\ deps = EmptyTable
    /\ owners = {}
    /\ sandbox = {}
    /\ cascade = Idle
    /\ pool = PoolWith(0)
    /\ MoreInit

Next ==
    \/ Begin
    \/ \E batch \in Batches, failAt \in 0 .. MaxBatch : StoreBatch(batch, failAt)
    \/ \E prefix \in Prefixes : DeletePrefix(prefix)
    \/ \E ok \in BOOLEAN : Complete(ok)
    \/ Discard
    \/ \E path \in Paths, max_size \in MaxSizes : Get(path, max_size)
    \/ \E path \in Paths : Exists(path)

Spec == Init /\ [][Next]_vars

(***************************************************************************)
(* Properties of the blob store                                            *)
(***************************************************************************)
\* s starts with the literal text prefix
StartsWith(s, prefix) ==
    Len(s) >= Len(prefix) /\ SubSeq(s, 1, Len(prefix)) = prefix

\* The rows of table whose path does not start with the literal prefix
WithoutPrefix(table, prefix) ==
    [p \in { q \in DOMAIN table : ~StartsWith(q, prefix) } |-> table[p]]

\* The greatest index of batch that writes path p (0: none does)
LastWriteTo(batch, p) ==
    LET idx == { i \in 1 .. Len(batch) : batch[i].path = p }
    IN  IF idx = {} THEN 0 ELSE CHOOSE i \in idx : \A j \in idx : j <= i

\* C1: when a transaction whose last call was a successful store_batch([b])
\* completes, get(b.path, m) on the committed table returns, for every
\* m >= len(b.content), a blob with b's path, content, mime and compression.
C1_RoundTrip ==
    [][ ( /\ last.op = "store_batch" /\ last.ok /\ Len(last.batch) = 1
          /\ last'.op = "complete" /\ last'.ok )
        => \A m \in MaxSizes :
              m >= Len(last.batch[1].content)
              => GetResult(files', last.batch[1].path, m)
                   = [kind |-> "Ok", blob |-> last.batch[1]] ]_vars

\* A get has returned a compressed blob (the table starts empty: it was
\* stored by a store_batch and committed by complete)
C1_Witness ==
    /\ last.op = "get"
    /\ last.result.kind = "Ok"
    /\ last.result.blob.compression = <<"zstd">>
    /\ last.max_size = Len(last.result.blob.content)

\* C2: a successful store_batch leaves at every path it writes exactly the
\* blob of its last write to that path (mime, content and compression
\* together) and leaves every other path as it was; complete() makes exactly
\* that table the committed one; and no committed row mixes two payloads.
C2_Upsert ==
    /\ [](\A p \in DOMAIN files : files[p] \in { RowOf(b) : b \in Blobs })
    /\ [][ /\ (last'.op = "store_batch" /\ last'.ok)
              => \A p \in Paths :
                    LET i == LastWriteTo(last'.batch, p)
                    IN  IF i = 0
                        THEN /\ (p \in DOMAIN txFiles') = (p \in DOMAIN txFiles)
                             /\ p \in DOMAIN txFiles => txFiles'[p] = txFiles[p]
                        ELSE GetResult(txFiles', p, I32_MAX)
                               = [kind |-> "Ok", blob |-> last'.batch[i]]
           /\ (last'.op = "complete" /\ last'.committed) => files' = txFiles ]_vars

\* A batch wrote twice, with different payloads, to a path that already
\* holds a committed blob
C2_Witness ==
    /\ last.op = "store_batch" /\ last.ok
    /\ Len(last.batch) = 2
    /\ last.batch[1].path = last.batch[2].path
    /\ last.batch[1].mime # last.batch[2].mime
    /\ last.batch[1].path \in DOMAIN files
    /\ files[last.batch[1].path].mime # last.batch[2].mime

\* C3: get(path, m) of a stored blob of size S is the size-limit error when
\* m < S and the whole content when m >= S.
C3_SizeEnforcement ==
    (last.op = "get" /\ last.path \in DOMAIN files)
    => LET S == Len(files[last.path].content)
       IN  /\ last.max_size < S => last.result.kind = "SizeLimitReached"
           /\ last.max_size >= S
              => /\ last.result.kind = "Ok"
                 /\ last.result.blob.content = files[last.path].content

\* get(path, S-1) of a blob of size S = 2 returned the size-limit error
C3_Witness ==
    /\ last.op = "get"
    /\ last.path \in DOMAIN files
    /\ Len(files[last.path].content) = 2
    /\ last.max_size = 1
    /\ last.result.kind = "SizeLimitReached"

\* C4: get returns not-found exactly when no committed blob is at the path,
\* whatever max_size is, and exists is true exactly when get is not
\* not-found.
C4_NotFound ==
    /\ last.op = "get"
       => (last.result.kind = "PathNotFound") = (last.path \notin DOMAIN files)
    /\ last.op = "exists"
       => \A m \in MaxSizes :
             last.result = (GetResult(files, last.path, m).kind # "PathNotFound")

\* get(path, 0) of a missing path returned not-found while another path
\* holds a blob, written by a transaction that is still open
C4_Witness ==
    /\ last.op = "get"
    /\ last.max_size = 0
    /\ last.result.kind = "PathNotFound"
    /\ files # EmptyTable
    /\ txState = "open"
    /\ last.path \in DOMAIN txFiles

\* C5: the committed table, which is all get and exists read, changes only
\* in a complete() that succeeds on an open transaction; dropping the handle
\* leaves it as it was.
C5_CommitOrRollback ==
    [][ /\ files' # files => (last'.op = "complete" /\ last'.ok /\ txState = "open")
        /\ last'.op = "discard" => files' = files ]_vars

\* A handle with pending effects was dropped
C5_Witness ==
    /\ last.op = "discard"
    /\ last.dropped

\* C6: once a store_batch of a transaction has returned an error, nothing
\* the caller does with that transaction changes the committed table.
C6_BatchAtomicity ==
    [][ /\ batchFailed => files' = files
        /\ (last'.op = "store_batch" /\ last'.done < Len(last'.batch))
           => (~last'.ok /\ batchFailed') ]_vars

\* The second write of a batch failed after the first, to a path that holds no
\* committed blob, was executed
C6_Witness ==
    /\ last.op = "store_batch"
    /\ ~last.ok
    /\ Len(last.batch) = 2
    /\ last.done = 1
    /\ last.batch[1].path \notin DOMAIN files
    /\ batchFailed

\* C7: a delete_prefix(prefix) removes exactly the rows whose path starts
\* with the literal prefix.
C7_LiteralPrefix ==
    [][ (last'.op = "delete_prefix" /\ last'.ok)
        => txFiles' = WithoutPrefix(txFiles, last'.prefix) ]_vars

\* C8: delete_prefix(p) in an open transaction succeeds, whether or not it
\* was called before, leaves no blob under p, and changes nothing when no
\* path starts with p.
C8_PrefixIdempotence ==
    [][ (last'.op = "delete_prefix" /\ txState = "open")
        => /\ last'.ok
           /\ \A q \in DOMAIN txFiles' : ~StartsWith(q, last'.prefix)
           /\ (\A q \in DOMAIN txFiles : ~StartsWith(q, last'.prefix))
              => txFiles' = txFiles ]_vars

(***************************************************************************)
(* db/delete.rs: the catalog and the cascading deletion                    *)
(***************************************************************************)
\* greatest release_time of a release
MaxTime == 2

\* Crate names: two that differ only where one has '_'
CrateNames == { <<"a", "_", "b">>, <<"a", "-", "b">> }

Versions == { <<"1">>, <<"2">> }

\* The version strings a caller passes: the stored ones and one that no
\* release has, made of a LIKE wildcard
ArgVersions == Versions \cup { << "_" >> }

\* crates.id of the crate called name, as the build pipeline assigned it
CrateId(name) == IF name = <<"a", "_", "b">> THEN 1 ELSE 2

\* releases.id of version v of the crate called name
ReleaseId(name, v) == 2 * (CrateId(name) - 1) + (IF v = <<"1">> THEN 1 ELSE 2)

STORAGE_PATHS_TO_DELETE == << "rustdoc", "sources" >>

\* The tables of METADATA (each references a release by its second component)
METADATA == << "author_rels", "keyword_rels", "builds", "compression_rels", "doc_coverage" >>

\* The path of the file kept in area for version v of the crate called name
BlobPath(area, name, v) == << area, "/" >> \o name \o << "/" >> \o v \o << "/", "f" >>

\* The tables as one value, for the statements to work on
Catalog ==
    [crates |-> crates, releases |-> releases, deps |-> deps, owners |-> owners,
     sandbox |-> sandbox, files |-> files]

\* A lookup that answers id 0 when no row matches
GetId_Default(crateTable, name) ==
    IF name \in DOMAIN crateTable THEN << crateTable[name].id >> ELSE << 0 >>

\* get_id: SELECT id FROM crates WHERE name = $1
GetId(crateTable, name) ==
    IF name \in DOMAIN crateTable THEN << crateTable[name].id >> ELSE << >>

\* A subquery that selects the ids of the releases of every crate
ReleaseIdsOfCrate_All(c, id) == { r.id : r \in c.releases }

\* SELECT id FROM releases WHERE crate_id = $1
ReleaseIdsOfCrate(c, id) == { r.id : r \in { x \in c.releases : x.crate_id = id } }

\* SELECT id FROM releases WHERE crate_id = $1 AND version = $2
ReleaseIdsOfVersion(c, id, v) ==
    { r.id : r \in { x \in c.releases : x.crate_id = id /\ x.version = v } }

\* The scalar subquery of the UPDATE of delete_version_from_database: the ids
\* of the releases, of any crate, whose release_time is the greatest
\* release_time of the crate's releases
LatestCandidates(c, id) ==
    LET own == { r \in c.releases : r.crate_id = id }
    IN  IF own = {} THEN {}
        ELSE LET top == CHOOSE t \in { r.release_time : r \in own } :
                           \A r \in own : r.release_time <= t
             IN  { r.id : r \in { x \in c.releases : x.release_time = top } }

\* One statement on the tables of the open transaction: [ok, c]
ApplyStmt(c, s) ==
    CASE s.k \in {"begin", "commit"} -> [ok |-> TRUE, c |-> c]
      [] s.k = "sandbox" ->
           [ok |-> TRUE, c |-> [c EXCEPT !.sandbox = @ \ {s.name}]]
      [] s.k = "dep_crate" ->
           [ok |-> TRUE,
            c |-> [c EXCEPT !.deps[s.table] = @ \ ReleaseIdsOfCrate(c, s.id)]]
      [] s.k = "dep_version" ->
           [ok |-> TRUE,
            c |-> [c EXCEPT !.deps[s.table] = @ \ ReleaseIdsOfVersion(c, s.id, s.version)]]
      [] s.k = "owners" ->
           [ok |-> TRUE, c |-> [c EXCEPT !.owners = @ \ {s.id}]]
      [] s.k = "releases_crate" ->
           [ok |-> TRUE,
            c |-> [c EXCEPT !.releases = { r \in @ : r.crate_id # s.id }]]
      [] s.k = "release_version" ->
           [ok |-> TRUE,
            c |-> [c EXCEPT !.releases =
                      { r \in @ : ~(r.crate_id = s.id /\ r.version = s.version) }]]
      [] s.k = "crate" ->
           [ok |-> TRUE,
            c |-> [c EXCEPT !.crates =
                      [n \in { m \in DOMAIN @ : @[m].id # s.id } |-> @[n]]]]
      [] s.k = "latest" ->
           LET cand == LatestCandidates(c, s.id)
           IN  IF Cardinality(cand) > 1
               THEN [ok |-> FALSE, c |-> c]
               ELSE [ok |-> TRUE,
                     c |-> [c EXCEPT !.crates =
                               [n \in DOMAIN @ |->
                                   IF @[n].id = s.id
                                   THEN [@[n] EXCEPT !.latest =
                                           IF cand = {} THEN << >>
                                           ELSE << CHOOSE x \in cand : TRUE >>]
                                   ELSE @[n]]]]
      [] s.k = "files_like" ->
           [ok |-> TRUE, c |-> [c EXCEPT !.files = DeleteLike(@, s.pattern)]]

\* A cascade that deletes the crates row and the releases before the rows
\* that reference them
CrateStatements_ParentFirst(name, id) ==
    << [k |-> "begin"], [k |-> "crate", id |-> id], [k |-> "releases_crate", id |-> id],
       [k |-> "sandbox", name |-> name] >>
    \o [i \in 1 .. Len(METADATA) |-> [k |-> "dep_crate", table |-> METADATA[i], id |-> id]]
    \o << [k |-> "owners", id |-> id], [k |-> "commit"] >>

\* The statements of delete_crate_from_database, in order
CrateStatements(name, id) ==
    << [k |-> "begin"], [k |-> "sandbox", name |-> name] >>
    \o [i \in 1 .. Len(METADATA) |-> [k |-> "dep_crate", table |-> METADATA[i], id |-> id]]
    \o << [k |-> "owners", id |-> id],
          [k |-> "releases_crate", id |-> id],
          [k |-> "crate", id |-> id],
          [k |-> "commit"] >>

\* The statements of delete_version_from_database after get_id, in order
VersionStatements(name, id, v) ==
    << [k |-> "begin"] >>
    \o [i \in 1 .. Len(METADATA) |->
           [k |-> "dep_version", table |-> METADATA[i], id |-> id, version |-> v]]
    \o << [k |-> "release_version", id |-> id, version |-> v],
          [k |-> "latest", id |-> id] >>
    \o [i \in 1 .. Len(STORAGE_PATHS_TO_DELETE) |->
           [k |-> "files_like",
            pattern |-> << STORAGE_PATHS_TO_DELETE[i], "/" >> \o name \o << "/" >> \o v
                          \o << "/", "%" >>]]
    \o << [k |-> "commit"] >>

\* The transaction after its statements i, i+1, ...: the first that fails (by
\* itself, or the failAt-th because the backend fails) ends the run.
\* [ok, c, dirty]: dirty says that the statements run before the failure had
\* changed the tables.
RECURSIVE RunFrom(_, _, _, _, _)
RunFrom(c0, c, stmts, i, failAt) ==
    IF i > Len(stmts) THEN [ok |-> TRUE, c |-> c, dirty |-> c # c0]
    ELSE LET r == ApplyStmt(c, stmts[i])
         IN  IF i = failAt \/ ~r.ok THEN [ok |-> FALSE, c |-> c, dirty |-> c # c0]
             ELSE RunFrom(c0, r.c, stmts, i + 1, failAt)

\* A transaction whose executed statements stay when a later one fails
TxOutcome_NoRollback(c0, run) == run.c

\* What the relational transaction leaves: its tables when every statement
\* and the commit succeeded, the tables as they were otherwise (the
\* Transaction is dropped by `?` and rolls back)
TxOutcome(c0, run) == IF run.ok THEN run.c ELSE c0

\* Storage::delete_prefix(prefix) on the database backend: a Storage
\* Transaction of its own that runs delete_prefix and completes
StorageDeletePrefix(table, prefix) == DeletePrefixStatement(table, prefix)

\* The loop over STORAGE_PATHS_TO_DELETE: the calls 1 .. n made in order, the
\* blobFailAt-th returning Err (0: none)
RECURSIVE BlobPhase(_, _, _)
BlobPhase(table, prefixes, n) ==
    IF n = 0 THEN table
    ELSE StorageDeletePrefix(BlobPhase(table, prefixes, n - 1), prefixes[n])

\* How many delete_prefix calls the handler makes after a transaction that
\* ended as run did
BlobCalls(run, nprefixes, blobFailAt) ==
    IF ~run.ok THEN 0
    ELSE IF blobFailAt = 0 THEN nprefixes ELSE blobFailAt

\* The whole of a handler once the crate id is known: the relational
\* transaction, then the blob phase
Cascade(op, name, version, stmts, prefixes, failAt, blobFailAt) ==
    \E c0 \in { Catalog } :
    \E run \in { RunFrom(c0, c0, stmts, 1, failAt) } :
    \E out \in { TxOutcome(c0, run) } :
    \E calls \in { BlobCalls(run, Len(prefixes), blobFailAt) } :
        /\ crates' = out.crates
        /\ releases' = out.releases
        /\ deps' = out.deps
        /\ owners' = out.owners
        /\ sandbox' = out.sandbox
        /\ files' = BlobPhase(out.files, prefixes,
                              IF calls = 0 \/ blobFailAt = 0 THEN calls ELSE calls - 1)
        /\ last' = [op |-> op, name |-> name, version |-> version,
                    result |-> IF ~run.ok THEN "StatementFailed"
                               ELSE IF blobFailAt # 0 THEN "StorageFailed" ELSE "Ok",
                    dirty |-> run.dirty,
                    calls |-> calls]

\* The handler when get_id finds no row: Err(MissingCrate)
Missing(op, name, version) ==
    /\ last' = [op |-> op, name |-> name, version |-> version,
                result |-> "MissingCrate", dirty |-> FALSE, calls |-> 0]
    /\ UNCHANGED <<files, catalogVars, otherVars>>

\* The number of statements of either transaction, BEGIN and COMMIT included
MaxStmts == Len(METADATA) + 6

\* delete_crate(conn, storage, name)
DeleteCrate(name, failAt, blobFailAt) ==
    /\ failAt # 0 => blobFailAt = 0
    /\ LET id == GetId(crates, name)
       IN  IF id = << >>
           THEN failAt = 0 /\ blobFailAt = 0 /\ Missing("delete_crate", name, << >>)
           ELSE /\ failAt <= MaxStmts
                /\ Cascade("delete_crate", name, << >>, CrateStatements(name, id[1]),
                           [i \in 1 .. Len(STORAGE_PATHS_TO_DELETE) |->
                               << STORAGE_PATHS_TO_DELETE[i], "/" >> \o name \o << "/" >>],
                           failAt, blobFailAt)
    /\ UNCHANGED <<txState, txFiles, batchFailed, otherVars>>

\* delete_version(conn, storage, name, version)
DeleteVersion(name, version, failAt, blobFailAt) ==
    /\ failAt # 0 => blobFailAt = 0
    /\ LET id == GetId(crates, name)
       IN  IF id = << >>
           THEN failAt = 0 /\ blobFailAt = 0 /\ Missing("delete_version", name, version)
           ELSE /\ failAt <= MaxStmts
                /\ Cascade("delete_version", name, version,
                           VersionStatements(name, id[1], version),
                           [i \in 1 .. Len(STORAGE_PATHS_TO_DELETE) |->
                               << STORAGE_PATHS_TO_DELETE[i], "/" >> \o name \o << "/" >>
                                 \o version \o << "/" >>],
                           failAt, blobFailAt)
    /\ UNCHANGED <<txState, txFiles, batchFailed, otherVars>>

\* The row of table files of every blob of the catalog
DocRow == [mime |-> "text/html", content |-> <<1>>, compression |-> << >>]

\* A catalog as the build pipeline leaves it: every release belongs to a
\* crate, has a row in every table of METADATA and a blob in every storage
\* area; every crate has an owner; latest is a release of the crate with the
\* greatest release_time.
InitDelete ==
    /\ cascade = Idle
    /\ pool = PoolWith(0)
    /\ MoreInit
    /\ txState = "none"
    /\ txFiles = EmptyTable
    /\ batchFailed = FALSE
    /\ last = [op |-> "none"]
    /\ \E present \in SUBSET CrateNames :
         \E rel \in SUBSET (present \X Versions) :
           \E tm \in [rel -> 1 .. MaxTime] :
             /\ releases = { [id |-> ReleaseId(x[1], x[2]), crate_id |-> CrateId(x[1]),
                              version |-> x[2], release_time |-> tm[x]] : x \in rel }
             /\ \E lt \in [present -> { << >> } \cup { << ReleaseId(x[1], x[2]) >> : x \in rel }] :
                  /\ \A n \in present :
                       LET own == { x \in rel : x[1] = n }
                       IN  IF own = {} THEN lt[n] = << >>
                           ELSE \E x \in own :
                                  /\ lt[n] = << ReleaseId(x[1], x[2]) >>
                                  /\ \A y \in own : tm[y] <= tm[x]
                  /\ crates = [n \in present |-> [id |-> CrateId(n), latest |-> lt[n]]]
             /\ deps = [t \in { METADATA[i] : i \in 1 .. Len(METADATA) } |->
                          { ReleaseId(x[1], x[2]) : x \in rel }]
             /\ owners = { CrateId(n) : n \in present }
             /\ sandbox = present
             /\ files = [p \in { BlobPath(STORAGE_PATHS_TO_DELETE[i], x[1], x[2]) :
                                   i \in 1 .. Len(STORAGE_PATHS_TO_DELETE), x \in rel }
                           |-> DocRow]

NextDelete ==
    \/ \E name \in CrateNames, failAt \in 0 .. MaxStmts,
          blobFailAt \in 0 .. Len(STORAGE_PATHS_TO_DELETE) :
          DeleteCrate(name, failAt, blobFailAt)
    \/ \E name \in CrateNames, version \in Versions, failAt \in 0 .. MaxStmts,
          blobFailAt \in 0 .. Len(STORAGE_PATHS_TO_DELETE) :
          DeleteVersion(name, version, failAt, blobFailAt)

SpecDelete == InitDelete /\ [][NextDelete]_vars

\* The handlers called with any version string, on a backend that fails no
\* statement of the metadata transaction
NextDeleteAnyVersion ==
    \/ \E name \in CrateNames, blobFailAt \in 0 .. Len(STORAGE_PATHS_TO_DELETE) :
          DeleteCrate(name, 0, blobFailAt)
    \/ \E name \in CrateNames, version \in ArgVersions,
          blobFailAt \in 0 .. Len(STORAGE_PATHS_TO_DELETE) :
          DeleteVersion(name, version, 0, blobFailAt)

SpecDeleteAnyVersion == InitDelete /\ [][NextDeleteAnyVersion]_vars

(***************************************************************************)
(* The deletion statement by statement, and a reader on another connection *)
(***************************************************************************)
\* A statement executed on the connection itself, outside the transaction
StatementEffect_OnConnection(committed, pending, s) ==
    [committed |-> ApplyStmt(committed, s).c, pending |-> ApplyStmt(pending, s).c]

\* `.execute(&mut transaction)`: the statement changes the tables as the
\* open transaction sees them, the committed tables stay
StatementEffect(committed, pending, s) ==
    [committed |-> committed, pending |-> ApplyStmt(pending, s).c]

\* The committed tables become c
SetTables(c) ==
    /\ crates' = c.crates
    /\ releases' = c.releases
    /\ deps' = c.deps
    /\ owners' = c.owners
    /\ sandbox' = c.sandbox
    /\ files' = c.files

\* The prefixes the handler passes to Storage::delete_prefix, in order
BlobPrefixes(op, name, version) ==
    [i \in 1 .. Len(STORAGE_PATHS_TO_DELETE) |->
        IF op = "delete_crate"
        THEN << STORAGE_PATHS_TO_DELETE[i], "/" >> \o name \o << "/" >>
        ELSE << STORAGE_PATHS_TO_DELETE[i], "/" >> \o name \o << "/" >> \o version \o << "/" >>]

\* What a handler returns
Returned(op, name, version, result, dirty, calls) ==
    [op |-> op, name |-> name, version |-> version, result |-> result,
     dirty |-> dirty, calls |-> calls]

\* get_id and conn.begin() of a handler: Err(MissingCrate), or BEGIN fails
\* (fail), or the transaction is open
BeginCascade(op, name, version, stmts, fail) ==
    /\ cascade.state = "idle"
    /\ IF GetId(crates, name) = << >>
       THEN ~fail /\ Missing(op, name, version)
       ELSE IF fail
       THEN /\ last' = Returned(op, name, version, "StatementFailed", FALSE, 0)
            /\ UNCHANGED <<files, catalogVars, cascade>>
       ELSE /\ cascade' = [state |-> "running", op |-> op, name |-> name,
                           version |-> version, stmts |-> stmts, pc |-> 2,
                           before |-> Catalog, c |-> Catalog]
            /\ last' = [op |-> "statement", k |-> "begin"]
            /\ UNCHANGED <<files, catalogVars>>
    /\ UNCHANGED <<txState, txFiles, batchFailed, pool, moreVars>>

\* delete_crate up to the open transaction
BeginDeleteCrate(name, fail) ==
    BeginCascade("delete_crate", name, << >>, CrateStatements(name, CrateId(name)), fail)

\* delete_version up to the open transaction
BeginDeleteVersion(name, version, fail) ==
    BeginCascade("delete_version", name, version,
                 VersionStatements(name, CrateId(name), version), fail)

\* A handler that goes on to the blob prefixes after the metadata function
\* returned Err
AfterMetadataError_GoesOn(cas) ==
    [state |-> "blobs", op |-> cas.op, name |-> cas.name, version |-> cas.version,
     i |-> 1, dirty |-> FALSE]

\* `?` on the result of the metadata function: its Err returns from the
\* handler, before the loop over STORAGE_PATHS_TO_DELETE
AfterMetadataError(cas) == Idle

\* The next statement of the open transaction.  When it fails (by itself, or
\* fail: the backend fails it) `?` drops the Transaction, which rolls back,
\* and the handler returns; COMMIT makes the tables of the transaction the
\* committed ones.
CascadeStatement(fail) ==
    /\ cascade.state = "running"
    /\ LET s == cascade.stmts[cascade.pc]
           r == ApplyStmt(cascade.c, s)
       IN  IF fail \/ ~r.ok
           THEN /\ cascade' = AfterMetadataError(cascade)
                /\ last' = Returned(cascade.op, cascade.name, cascade.version,
                                    "StatementFailed", cascade.c # cascade.before, 0)
                /\ UNCHANGED <<files, catalogVars>>
           ELSE IF s.k = "commit"
           THEN /\ SetTables(cascade.c)
                /\ cascade' = [state |-> "blobs", op |-> cascade.op, name |-> cascade.name,
                               version |-> cascade.version, i |-> 1,
                               dirty |-> cascade.c # cascade.before]
                /\ last' = [op |-> "statement", k |-> s.k]
           ELSE \E e \in { StatementEffect(Catalog, cascade.c, s) } :
                  /\ SetTables(e.committed)
                  /\ cascade' = [cascade EXCEPT !.c = e.pending, !.pc = @ + 1]
                  /\ last' = [op |-> "statement", k |-> s.k]
    /\ UNCHANGED <<txState, txFiles, batchFailed, pool, moreVars>>

\* The next storage.delete_prefix of the loop over STORAGE_PATHS_TO_DELETE;
\* when it returns Err (fail) `?` returns it and the loop ends
CascadeBlob(fail) ==
    /\ cascade.state = "blobs"
    /\ LET prefixes == BlobPrefixes(cascade.op, cascade.name, cascade.version)
       IN  IF fail
           THEN /\ cascade' = Idle
                /\ last' = Returned(cascade.op, cascade.name, cascade.version,
                                    "StorageFailed", cascade.dirty, cascade.i)
                /\ UNCHANGED files
           ELSE /\ files' = StorageDeletePrefix(files, prefixes[cascade.i])
                /\ IF cascade.i = Len(prefixes)
                   THEN /\ cascade' = Idle
                        /\ last' = Returned(cascade.op, cascade.name, cascade.version,
                                            "Ok", cascade.dirty, cascade.i)
                   ELSE /\ cascade' = [cascade EXCEPT !.i = @ + 1]
                        /\ last' = [op |-> "delete_prefix", prefix |-> prefixes[cascade.i],
                                    ok |-> TRUE]
    /\ UNCHANGED <<catalogVars, txState, txFiles, batchFailed, pool, moreVars>>

\* A caller on another connection reads the tables: it sees the committed
\* rows (read committed)
ReadCatalog ==
    /\ last' = [op |-> "read", seen |-> Catalog, during |-> cascade]
    /\ UNCHANGED <<storeVars, catalogVars, otherVars>>

NextDeleteSteps ==
    \/ \E name \in CrateNames, fail \in BOOLEAN : BeginDeleteCrate(name, fail)
    \/ \E name \in CrateNames, version \in Versions, fail \in BOOLEAN :
          BeginDeleteVersion(name, version, fail)
    \/ \E fail \in BOOLEAN : CascadeStatement(fail)
    \/ \E fail \in BOOLEAN : CascadeBlob(fail)
    \/ ReadCatalog

SpecDeleteSteps == InitDelete /\ [][NextDeleteSteps]_vars

(***************************************************************************)
(* Reads of a files table that other writers filled                        *)
(***************************************************************************)
\* A compression code that no CompressionAlgorithm has
UnknownCode == 1

\* Rows of table files as any writer of the database can leave them
StoredRows ==
    { [mime |-> "text/html", content |-> content, compression |-> code] :
        content \in { <<1>>, <<1, 2>> },
        code \in { << >> } \cup { << n >> : n \in ValidCodes \cup { UnknownCode } } }

InitStored ==
    /\ txState = "none"
    /\ txFiles = EmptyTable
    /\ batchFailed = FALSE
    /\ last = [op |-> "none"]
    /\ crates = EmptyTable
    /\ releases = {}
    /\ deps = EmptyTable
    /\ owners = {}
    /\ sandbox = {}
    /\ cascade = Idle
    /\ pool = PoolWith(0)
    /\ MoreInit
    /\ \E stored \in SUBSET Paths : files \in [stored -> StoredRows]

NextStored ==
    \/ \E path \in Paths, max_size \in MaxSizes : Get(path, max_size)
    \/ \E path \in Paths : Exists(path)

SpecStored == InitStored /\ [][NextStored]_vars

(***************************************************************************)
(* db/pool.rs: the connection pool                                         *)
(***************************************************************************)
\* A pool that opens a connection whenever none is idle
BelowMax_Always(p) == TRUE

\* PoolOptions::max_connections(config.max_pool_size): acquire opens a
\* connection only while fewer than that many are live
BelowMax(p) == Cardinality(p.live) < MaxPoolSize

\* The connections acquire may hand out: the idle ones
Candidates(p) == p.idle

\* A client that can be dropped while its transaction is open
CanRelease_InTransaction(at) == at \in {"leased", "tx"}

\* The PoolConnection goes back to the pool when its owner is dropped.
\* DatabaseStorageTransaction<'a> borrows the DatabaseClient mutably, so the
\* client outlives the transaction: it is dropped only with no transaction.
CanRelease(at) == at = "leased"

\* The connections leased to caller c
LeasedTo(p, c) == { l[1] : l \in { x \in p.leases : x[2] = c } }

\* The pool after connection k is leased to caller c
Lease(p, k, c) ==
    [p EXCEPT !.live = @ \cup {k}, !.idle = @ \ {k},
              !.leases = @ \cup { <<k, c>> }, !.at[c] = "leased"]

\* What acquire does with the pool for caller c: an idle connection, or a
\* new one while below the maximum (k: the one chosen; ok: the backend
\* accepts the new connection), or the caller is queued
Acquire(p, c, k, ok) ==
    IF Candidates(p) # {}
    THEN IF k \in Candidates(p) /\ ok THEN [r |-> "Ok", p |-> Lease(p, k, c)]
         ELSE [r |-> "none", p |-> p]
    ELSE IF BelowMax(p)
    THEN IF k \in p.live THEN [r |-> "none", p |-> p]
         ELSE IF ok THEN [r |-> "Ok", p |-> Lease(p, k, c)]
         ELSE [r |-> "ClientError(Io)", p |-> [p EXCEPT !.at[c] = "out"]]
    ELSE IF k = 1 /\ ok THEN [r |-> "waiting", p |-> [p EXCEPT !.at[c] = "waiting"]]
         ELSE [r |-> "none", p |-> p]

\* Pool::get() by caller c
PoolGet(c, k, ok) ==
    /\ pool.at[c] = "out"
    /\ \E a \in { Acquire(pool, c, k, ok) } :
         /\ a.r # "none"
         /\ pool' = a.p
         /\ last' = [op |-> "get_connection", caller |-> c, result |-> a.r]
    /\ UNCHANGED <<storeVars, catalogVars, cascade, moreVars>>

\* A caller queued in acquire is woken: a connection was released or closed
PoolWake(c, k, ok) ==
    /\ pool.at[c] = "waiting"
    /\ \E a \in { Acquire(pool, c, k, ok) } :
         /\ a.r \in {"Ok", "ClientError(Io)"}
         /\ pool' = a.p
         /\ last' = [op |-> "get_connection", caller |-> c, result |-> a.r]
    /\ UNCHANGED <<storeVars, catalogVars, cascade, moreVars>>

\* The pool options are built without connect_timeout, so sqlx's default
\* (30 s) applies: acquire gives up and Pool::get returns
\* Err(ClientError(PoolTimedOut))
PoolTimeout(c) ==
    /\ pool.at[c] = "waiting"
    /\ pool' = [pool EXCEPT !.at[c] = "out"]
    /\ last' = [op |-> "get_connection", caller |-> c, result |-> "ClientError(PoolTimedOut)"]
    /\ UNCHANGED <<storeVars, catalogVars, cascade, moreVars>>

\* start_storage_transaction on the caller's DatabaseClient: BEGIN on its
\* connection
StartTransaction(c) ==
    /\ pool.at[c] = "leased"
    /\ pool' = [pool EXCEPT !.at[c] = "tx", !.tx = @ \cup LeasedTo(pool, c)]
    /\ last' = [op |-> "start_storage_transaction", caller |-> c]
    /\ UNCHANGED <<storeVars, catalogVars, cascade, moreVars>>

\* complete(), or the transaction handle dropped (rollback)
EndTransaction(c, committed) ==
    /\ pool.at[c] = "tx"
    /\ pool' = [pool EXCEPT !.at[c] = "leased", !.tx = @ \ LeasedTo(pool, c)]
    /\ last' = [op |-> "end_transaction", caller |-> c, committed |-> committed]
    /\ UNCHANGED <<storeVars, catalogVars, cascade, moreVars>>

\* The caller drops its client: the connection returns to the idle set, as
\* it is (no statement is sent on it)
Release(c) ==
    /\ CanRelease(pool.at[c])
    /\ pool.at[c] # "out"
    /\ pool' = [pool EXCEPT !.idle = @ \cup LeasedTo(pool, c),
                            !.leases = { x \in @ : x[2] # c },
                            !.at[c] = "out"]
    /\ last' = [op |-> "release", caller |-> c]
    /\ UNCHANGED <<storeVars, catalogVars, cascade, moreVars>>

\* The pool closes a connection that was idle beyond its policy
CloseIdle(k) ==
    /\ k \in pool.idle
    /\ pool' = [pool EXCEPT !.idle = @ \ {k}, !.live = @ \ {k}]
    /\ last' = [op |-> "close", conn |-> k]
    /\ UNCHANGED <<storeVars, catalogVars, cascade, moreVars>>

\* Pool::new: config.min_pool_idle connections are open
InitPool ==
    /\ files = EmptyTable
    /\ txState = "none"
    /\ txFiles = EmptyTable
    /\ batchFailed = FALSE
    /\ last = [op |-> "none"]
    /\ crates = EmptyTable
    /\ releases = {}
    /\ deps = EmptyTable
    /\ owners = {}
    /\ sandbox = {}
    /\ cascade = Idle
    /\ \E min_pool_idle \in 0 .. MaxPoolSize : pool = PoolWith(min_pool_idle)
    /\ MoreInit

NextPool ==
    \/ \E c \in Callers, k \in ConnIds, ok \in BOOLEAN : PoolGet(c, k, ok)
    \/ \E c \in Callers, k \in ConnIds, ok \in BOOLEAN : PoolWake(c, k, ok)
    \/ \E c \in Callers : PoolTimeout(c)
    \/ \E c \in Callers : StartTransaction(c)
    \/ \E c \in Callers, committed \in BOOLEAN : EndTransaction(c, committed)
    \/ \E c \in Callers : Release(c)
    \/ \E k \in ConnIds : CloseIdle(k)

SpecPool == InitPool /\ [][NextPool]_vars

(***************************************************************************)
(* Properties of the cascading deletion                                    *)
(***************************************************************************)
DeleteOps == { "delete_crate", "delete_version" }

\* C9: when a statement of the metadata transaction of delete_crate or
\* delete_version fails, the call returns an error, every catalog table and
\* the files table are as before the call, and delete_prefix is not called.
C9_CascadingAtomicity ==
    [][ (last'.op \in DeleteOps /\ last'.result = "StatementFailed")
        => /\ UNCHANGED catalogVars
           /\ files' = files
           /\ last'.calls = 0 ]_vars

\* A delete_crate failed at a statement that followed statements which had
\* already deleted rows
C9_Witness ==
    /\ last.op = "delete_crate"
    /\ last.result = "StatementFailed"
    /\ last.dirty
    /\ last.name \in DOMAIN crates

\* C10: delete_crate and delete_version of a name with no row in crates
\* return the missing-crate error and change no table.
C10_MissingPackage ==
    [][ (last'.op \in DeleteOps /\ last'.name \notin DOMAIN crates)
        => /\ last'.result = "MissingCrate"
           /\ UNCHANGED catalogVars
           /\ files' = files ]_vars

\* delete_version of a crate that has no row returned the missing-crate
\* error while blobs stored under its name remain
C10_Witness ==
    /\ last.op = "delete_version"
    /\ last.result = "MissingCrate"
    /\ last.name \notin DOMAIN crates
    /\ \E i \in 1 .. Len(STORAGE_PATHS_TO_DELETE) :
         BlobPath(STORAGE_PATHS_TO_DELETE[i], last.name, last.version) \in DOMAIN files

\* C11: delete_version of a crate that has a row but no release with that
\* version does not return success.
C11_MissingVersion ==
    [][ ( /\ last'.op = "delete_version"
          /\ last'.name \in DOMAIN crates
          /\ ReleaseIdsOfVersion(Catalog, crates[last'.name].id, last'.version) = {} )
        => last'.result # "Ok" ]_vars

\* The releases of crate id other than its version v
OtherReleases(rel, id, v) == { r \in rel : r.crate_id = id /\ r.version # v }

\* The blob paths of version w of the crate called name
VersionPaths(name, w) ==
    { BlobPath(STORAGE_PATHS_TO_DELETE[i], name, w) : i \in 1 .. Len(STORAGE_PATHS_TO_DELETE) }

\* C12: after delete_version(name, v) returned Ok, the crate has no release
\* v, no table of METADATA has a row of that release, no blob is stored under
\* <area>/<name>/<v>/, and every other version of the crate has its release
\* row, its rows in the tables of METADATA and its blobs as before the call.
C12_SingleVersionDeletion ==
    [][ (last'.op = "delete_version" /\ last'.result = "Ok")
        => LET name == last'.name
               v == last'.version
               id == crates[name].id
               gone == ReleaseIdsOfVersion(Catalog, id, v)
           IN  /\ \A r \in releases' : ~(r.crate_id = id /\ r.version = v)
               /\ \A t \in DOMAIN deps' : deps'[t] \cap gone = {}
               /\ \A i \in 1 .. Len(STORAGE_PATHS_TO_DELETE) :
                    \A p \in DOMAIN files' :
                       ~StartsWith(p, << STORAGE_PATHS_TO_DELETE[i], "/" >> \o name
                                        \o << "/" >> \o v \o << "/" >>)
               /\ OtherReleases(releases', id, v) = OtherReleases(releases, id, v)
               /\ \A r \in OtherReleases(releases, id, v) :
                    /\ \A t \in DOMAIN deps : (r.id \in deps'[t]) = (r.id \in deps[t])
                    /\ \A p \in VersionPaths(name, r.version) :
                         /\ (p \in DOMAIN files') = (p \in DOMAIN files)
                         /\ p \in DOMAIN files => files'[p] = files[p] ]_vars

\* crates.latest of the crate called name is the id of a release of that
\* crate with the greatest release_time, or null when it has no release
LatestIsOwnGreatest(c, name) ==
    LET id == c.crates[name].id
        own == { r \in c.releases : r.crate_id = id }
    IN  IF own = {} THEN c.crates[name].latest = << >>
        ELSE \E r \in own :
               /\ c.crates[name].latest = << r.id >>
               /\ \A y \in own : y.release_time <= r.release_time

LatestAfterCommit ==
    [][ (last'.op = "delete_version" /\ last'.result \in {"Ok", "StorageFailed"})
        => LatestIsOwnGreatest([crates |-> crates', releases |-> releases'], last'.name) ]_vars

\* C14: after delete_crate(name) returned Ok the crate has no row in crates,
\* releases, the tables of METADATA, owner_rels and sandbox_overrides, and
\* the rows of every other crate in those tables are as before the call.
C14_WholePackageDeletion ==
    [][ (last'.op = "delete_crate" /\ last'.result = "Ok")
        => LET name == last'.name
               id == crates[name].id
               gone == { r.id : r \in { x \in releases : x.crate_id = id } }
           IN  /\ name \notin DOMAIN crates'
               /\ \A r \in releases' : r.crate_id # id
               /\ \A t \in DOMAIN deps' : deps'[t] \cap gone = {}
               /\ id \notin owners'
               /\ name \notin sandbox'
               /\ DOMAIN crates' = DOMAIN crates \ {name}
               /\ \A n \in DOMAIN crates' : crates'[n] = crates[n]
               /\ releases' = { r \in releases : r.crate_id # id }
               /\ DOMAIN deps' = DOMAIN deps
               /\ \A t \in DOMAIN deps : deps'[t] = deps[t] \ gone
               /\ owners' = owners \ {id}
               /\ sandbox' = sandbox \ {name} ]_vars

\* delete_crate returned Ok and another crate is left with a release, its
\* rows in the tables of METADATA, its owner and its sandbox override
C14_Witness ==
    /\ last.op = "delete_crate"
    /\ last.result = "Ok"
    /\ last.name \notin DOMAIN crates
    /\ \E n \in DOMAIN crates :
         /\ crates[n].id \in owners
         /\ n \in sandbox
         /\ \E r \in releases :
              /\ r.crate_id = crates[n].id
              /\ \A t \in DOMAIN deps : r.id \in deps[t]

\* Every row of a table of METADATA references a release that has a row,
\* every owner_rels row and every release references a crate that has a row
ReferencesLive(c) ==
    /\ \A t \in DOMAIN c.deps : \A rid \in c.deps[t] : \E r \in c.releases : r.id = rid
    /\ \A cid \in c.owners : \E n \in DOMAIN c.crates : c.crates[n].id = cid
    /\ \A r \in c.releases : \E n \in DOMAIN c.crates : c.crates[n].id = r.crate_id

\* The tables of the open transaction before its statement i
TablesBefore(stmts, i) == RunFrom(Catalog, Catalog, stmts, 1, i).c

\* C15: in every committed catalog reached through delete_crate and
\* delete_version every row of a METADATA table and of owner_rels references
\* a live release or crate, and so do the tables of the metadata transaction
\* of either handler after each of its statements: the rows that reference a
\* release are deleted before the release, the releases before the crate.
C15_ReferentialInvariant ==
    /\ ReferencesLive(Catalog)
    /\ \A name \in DOMAIN crates : \A i \in 2 .. MaxStmts :
         /\ ReferencesLive(TablesBefore(CrateStatements(name, crates[name].id), i))
         /\ \A v \in Versions :
              ReferencesLive(TablesBefore(VersionStatements(name, crates[name].id, v), i))

\* delete_version returned Ok and left releases with their rows in the
\* tables of METADATA
C15_Witness ==
    /\ last.op = "delete_version"
    /\ last.result = "Ok"
    /\ \A r \in releases : ~(r.crate_id = CrateId(last.name) /\ r.version = last.version)
    /\ \E r \in releases : r.crate_id = CrateId(last.name)
    /\ \A r \in releases : \A t \in DOMAIN deps : r.id \in deps[t]
    /\ owners # {}

\* C16: what a caller on another connection reads while the metadata
\* transaction of delete_crate or delete_version is open is the catalog as it
\* was before the transaction or as its commit leaves it, and in no catalog
\* it reads has a release lost its row in a table of METADATA.
C16_NoPartialVisibility ==
    last.op = "read"
    => /\ \A r \in last.seen.releases : \A t \in DOMAIN last.seen.deps :
             r.id \in last.seen.deps[t]
       /\ last.during.state = "running"
          => \E after \in { RunFrom(last.during.before, last.during.before,
                                    last.during.stmts, 1, 0) } :
                \/ last.seen = last.during.before
                \/ after.ok /\ last.seen = after.c

\* A read made while the open transaction had deleted the dependent rows of
\* a release whose row it had not deleted yet
C16_Witness ==
    /\ last.op = "read"
    /\ last.during.state = "running"
    /\ \E r \in last.during.c.releases : \E t \in DOMAIN last.during.c.deps :
          r.id \notin last.during.c.deps[t]
    /\ cascade = last.during

\* The committed catalog has no row of the target of the call: the crate and
\* its releases for delete_crate, the release for delete_version
TargetRemoved(op, name, version) ==
    IF op = "delete_crate"
    THEN /\ name \notin DOMAIN crates
         /\ \A r \in releases : r.crate_id # CrateId(name)
    ELSE \A r \in releases : ~(r.crate_id = CrateId(name) /\ r.version = version)

\* C17: a handler is at its delete_prefix calls only when its metadata
\* transaction has committed, and makes at most one call per storage area; a
\* call that returned Ok made them all; when a delete_prefix fails the
\* handler returns that error at once, the target's rows stay removed and
\* the handler is not running any more.  While the metadata transaction is
\* open no committed row, of the catalog or of table files, has changed.
C17_TwoPhaseOrdering ==
    /\ cascade.state = "running" => Catalog = cascade.before
    /\ cascade.state = "blobs"
       => /\ TargetRemoved(cascade.op, cascade.name, cascade.version)
          /\ cascade.i \in 1 .. Len(STORAGE_PATHS_TO_DELETE)
    /\ (last.op \in DeleteOps /\ last.result # "MissingCrate")
       => /\ cascade.state = "idle"
          /\ last.calls \in 0 .. Len(STORAGE_PATHS_TO_DELETE)
          /\ last.calls > 0 <=> last.result \in {"Ok", "StorageFailed"}
          /\ last.result = "Ok" => last.calls = Len(STORAGE_PATHS_TO_DELETE)
          /\ last.result \in {"Ok", "StorageFailed"}
             => TargetRemoved(last.op, last.name, last.version)

\* delete_crate returned the error of its second delete_prefix: the crate's
\* rows are gone and a blob of it remains
C17_Witness ==
    /\ last.op = "delete_crate"
    /\ last.result = "StorageFailed"
    /\ last.calls = 2
    /\ last.dirty
    /\ last.name \notin DOMAIN crates
    /\ \E v \in Versions : BlobPath(STORAGE_PATHS_TO_DELETE[2], last.name, v) \in DOMAIN files
    /\ \A v \in Versions : BlobPath(STORAGE_PATHS_TO_DELETE[1], last.name, v) \notin DOMAIN files

(***************************************************************************)
(* Properties of the connection pool                                       *)
(***************************************************************************)
\* At most max_pool_size connections are live
PoolBound == Cardinality(pool.live) <= MaxPoolSize

\* Pool::get hands out an idle connection or opens one while below the
\* maximum (or returns the connection error of the backend), and queues the
\* caller otherwise
GetHandsOutOrQueues ==
    [][ \A c \in Callers :
          (pool.at[c] = "out" /\ pool'.at[c] # "out")
          => IF pool.idle # {} \/ Cardinality(pool.live) < MaxPoolSize
             THEN pool'.at[c] = "leased"
             ELSE pool'.at[c] = "waiting" ]_vars

\* C18: at most max_pool_size connections are live, and a caller that
\* Pool::get queued because every connection was in use stays queued until it
\* obtains a connection or the backend fails the connection: it is not
\* rejected.
C18_PoolBackPressure ==
    [][ /\ Cardinality(pool'.live) <= MaxPoolSize
        /\ \A c \in Callers :
             pool.at[c] = "waiting"
             => \/ pool'.at[c] \in {"waiting", "leased"}
                \/ last' = [op |-> "get_connection", caller |-> c,
                            result |-> "ClientError(Io)"] ]_vars

\* C19: no connection is leased to two callers, a leased connection is live
\* and not idle, a caller holds a connection exactly while Pool::get has
\* returned one to it that it has not dropped, and a connection with an open
\* Storage Transaction is leased to the caller that opened it.
C19_ExclusiveLease ==
    /\ \A k \in ConnIds : Cardinality({ l \in pool.leases : l[1] = k }) <= 1
    /\ \A l \in pool.leases : l[1] \in pool.live \ pool.idle
    /\ \A c \in Callers :
         Cardinality(LeasedTo(pool, c)) = (IF pool.at[c] \in {"leased", "tx"} THEN 1 ELSE 0)
    /\ \A k \in pool.tx :
         /\ k \notin pool.idle
         /\ \E c \in Callers : pool.at[c] = "tx" /\ LeasedTo(pool, c) = {k}

\* Every connection of the pool is leased, one of them with an open Storage
\* Transaction, and a caller is queued in Pool::get
C19_Witness ==
    /\ Cardinality(pool.live) = MaxPoolSize
    /\ pool.idle = {}
    /\ pool.tx # {}
    /\ \E c \in Callers : pool.at[c] = "waiting"

(***************************************************************************)
(* Properties of reads of stored rows                                      *)
(***************************************************************************)
\* The results get returns to its caller as Err
ReturnedErrors == { "PathNotFound", "SizeLimitReached", "CorruptData" }

\* C20: get of a stored blob within the size limit whose compression code no
\* CompressionAlgorithm has returns an error result to the caller, and never
\* the blob.
C20_CorruptCompression ==
    ( /\ last.op = "get"
      /\ last.path \in DOMAIN files
      /\ files[last.path].compression = << UnknownCode >>
      /\ Len(files[last.path].content) <= last.max_size )
    => last.result.kind \in ReturnedErrors

(***************************************************************************)
(* Column date_updated of table files                                      *)
(***************************************************************************)
\* latest time of the server clock
MaxClock == 2

\* The value the column takes in a row the INSERT creates: the INSERT names
\* no date_updated, so the column default, the time of the statement
DateDefault(now) == now

\* Column date_updated after the upsert of one blob at time now: DO UPDATE
\* SET names mime, content and compression, so a row that exists keeps its
\* date_updated
DateAfterUpsert(dates, path, now) ==
    IF path \in DOMAIN dates THEN dates
    ELSE [p \in DOMAIN dates \cup {path} |-> IF p = path THEN DateDefault(now) ELSE dates[p]]

\* Column date_updated after the first n statements of store_batch
RECURSIVE DatesAfter(_, _, _, _)
DatesAfter(dates, batch, n, now) ==
    IF n = 0 THEN dates
    ELSE DateAfterUpsert(DatesAfter(dates, batch, n - 1, now), batch[n].path, now)

\* A Storage Transaction that stores batch and completes, at the time clock
CommittedWrite(batch) ==
    /\ batch # << >>
    /\ files' = StoreStatements(files, batch, Len(batch))
    /\ dateUpdated' = DatesAfter(dateUpdated, batch, Len(batch), clock)
    /\ last' = [op |-> "write", batch |-> batch, at |-> clock]
    /\ UNCHANGED <<txState, txFiles, batchFailed, catalogVars, cascade, pool, clock, sideVars>>

\* Time passes
Tick ==
    /\ clock < MaxClock
    /\ clock' = clock + 1
    /\ last' = [op |-> "tick"]
    /\ UNCHANGED <<storeVars, catalogVars, cascade, pool, dateUpdated, sideVars>>

NextDates ==
    \/ \E batch \in Batches : CommittedWrite(batch)
    \/ Tick

SpecDates == Init /\ [][NextDates]_vars

\* C21: after a committed store_batch, date_updated of every path it wrote
\* is the time of that write, whether the write created the row or replaced
\* it.
C21_UpdateTimestamp ==
    [][ last'.op = "write"
        => \A i \in 1 .. Len(last'.batch) :
              dateUpdated'[last'.batch[i].path] = last'.at ]_vars

(***************************************************************************)
(* Two operations of one Storage Transaction, in either order              *)
(***************************************************************************)
\* One Storage Transaction: store_batch(<<blob>>), delete_prefix(prefix),
\* complete()
StoreThenDelete(blob, prefix) ==
    /\ files' = DeletePrefixStatement(StoreStatements(files, << blob >>, 1), prefix)
    /\ last' = [op |-> "store_then_delete", blob |-> blob, prefix |-> prefix]
    /\ UNCHANGED <<txState, txFiles, batchFailed, catalogVars, otherVars>>

\* One Storage Transaction: delete_prefix(prefix), store_batch(<<blob>>),
\* complete()
DeleteThenStore(prefix, blob) ==
    /\ files' = StoreStatements(DeletePrefixStatement(files, prefix), << blob >>, 1)
    /\ last' = [op |-> "delete_then_store", blob |-> blob, prefix |-> prefix]
    /\ UNCHANGED <<txState, txFiles, batchFailed, catalogVars, otherVars>>

NextOrder ==
    \/ \E blob \in Blobs, prefix \in Prefixes : StoreThenDelete(blob, prefix)
    \/ \E blob \in Blobs, prefix \in Prefixes : DeleteThenStore(prefix, blob)

SpecOrder == Init /\ [][NextOrder]_vars

\* C22: a transaction that stores a blob at a path that starts with p, then
\* calls delete_prefix(p) and completes leaves no blob at that path; one that
\* calls delete_prefix(p), then stores the blob and completes leaves the blob
\* stored.
C22_InTransactionOrder ==
    /\ (last.op = "store_then_delete" /\ StartsWith(last.blob.path, last.prefix))
       => last.blob.path \notin DOMAIN files
    /\ last.op = "delete_then_store"
       => /\ last.blob.path \in DOMAIN files
          /\ files[last.blob.path] = RowOf(last.blob)

(***************************************************************************)
(* The blocking bridge: static RUNTIME and Blocking::block                 *)
(***************************************************************************)

\* What an operation handed to block() produces when it is run
Outcomes == { << "Ok", 1 >>, << "Ok", 2 >>, << "Err", "e" >> }

\* A thread that finds the cell in this state runs the initialiser itself
MayInit_Racy(lazy) == lazy # "complete"

\* A thread that finds the cell in this state runs the initialiser itself
MayInit(lazy) == lazy = "incomplete"

\* The thread t with its record replaced
WithThread(t, rec) == [bridge EXCEPT !.threads[t] = rec]

\* block(self) is called with an operation that will produce outcome
Block(t, outcome) ==
    /\ ~bridge.exited
    /\ bridge.threads[t].pc = "outside"
    /\ bridge' = WithThread(t, [pc |-> "force", outcome |-> outcome, runs |-> 0,
                                waited |-> FALSE, result |-> << >>])
    /\ last' = [op |-> "call_block", thread |-> t]
    /\ UNCHANGED <<coreVars, blacklisted_crates, crate_priorities, sandbox_overrides, deleters,
                   adders>>

\* RUNTIME is dereferenced: the value if the cell holds one, the initialiser
\* if this thread is the one to run it, otherwise the thread parks
Force(t) ==
    /\ ~bridge.exited
    /\ bridge.threads[t].pc = "force"
    /\ \/ /\ bridge.lazy = "complete"
          /\ bridge' = WithThread(t, [bridge.threads[t] EXCEPT !.pc = "block_on"])
       \/ /\ bridge.lazy # "complete"
          /\ MayInit(bridge.lazy)
          /\ bridge' = [WithThread(t, [bridge.threads[t] EXCEPT !.pc = "init"])
                          EXCEPT !.lazy = "running"]
       \/ /\ bridge.lazy # "complete"
          /\ ~MayInit(bridge.lazy)
          /\ bridge' = WithThread(t, [bridge.threads[t] EXCEPT !.pc = "parked",
                                                               !.waited = TRUE])
    /\ last' = [op |-> "force", thread |-> t]
    /\ UNCHANGED <<coreVars, blacklisted_crates, crate_priorities, sandbox_overrides, deleters,
                   adders>>

\* Runtime::new() in the initialiser: the Runtime is stored in the cell, or
\* handle_error ends the process
RuntimeNew(t, ok) ==
    /\ ~bridge.exited
    /\ bridge.threads[t].pc = "init"
    /\ bridge' = IF ok
                 THEN [WithThread(t, [bridge.threads[t] EXCEPT !.pc = "block_on"])
                         EXCEPT !.lazy = "complete", !.created = bridge.created + 1]
                 ELSE [bridge EXCEPT !.exited = TRUE]
    /\ last' = [op |-> "Runtime::new", thread |-> t, ok |-> ok]
    /\ UNCHANGED <<coreVars, blacklisted_crates, crate_priorities, sandbox_overrides, deleters,
                   adders>>

\* A parked thread goes on once the cell holds the Runtime
Unpark(t) ==
    /\ ~bridge.exited
    /\ bridge.threads[t].pc = "parked"
    /\ bridge.lazy = "complete"
    /\ bridge' = WithThread(t, [bridge.threads[t] EXCEPT !.pc = "block_on"])
    /\ last' = [op |-> "unpark", thread |-> t]
    /\ UNCHANGED <<coreVars, blacklisted_crates, crate_priorities, sandbox_overrides, deleters,
                   adders>>

\* handle().block_on(self) drives the operation to its end
BlockOn(t) ==
    /\ ~bridge.exited
    /\ bridge.threads[t].pc = "block_on"
    /\ bridge' = WithThread(t, [bridge.threads[t] EXCEPT
                                  !.pc = "ran",
                                  !.runs = bridge.threads[t].runs + 1,
                                  !.result = bridge.threads[t].outcome])
    /\ last' = [op |-> "block_on", thread |-> t]
    /\ UNCHANGED <<coreVars, blacklisted_crates, crate_priorities, sandbox_overrides, deleters,
                   adders>>

\* block() returns what block_on returned
BlockReturns(t) ==
    /\ ~bridge.exited
    /\ bridge.threads[t].pc = "ran"
    /\ bridge' = WithThread(t, Outside)
    /\ last' = [op |-> "block", thread |-> t, result |-> bridge.threads[t].result,
                waited |-> bridge.threads[t].waited]
    /\ UNCHANGED <<coreVars, blacklisted_crates, crate_priorities, sandbox_overrides, deleters,
                   adders>>

NextBridge ==
    \/ \E t \in Threads, outcome \in Outcomes : Block(t, outcome)
    \/ \E t \in Threads : Force(t)
    \/ \E t \in Threads, ok \in BOOLEAN : RuntimeNew(t, ok)
    \/ \E t \in Threads : Unpark(t)
    \/ \E t \in Threads : BlockOn(t)
    \/ \E t \in Threads : BlockReturns(t)

SpecBridge == Init /\ [][NextBridge]_vars

\* C23: the Runtime is built at most once and a thread is past the
\* dereference only when it was built; a cell that holds the Runtime keeps
\* it; a thread leaves block() only after its operation ran exactly once,
\* and block() returns what that operation produced.
C23_BlockingBridge ==
    [][ /\ bridge'.created <= 1
        /\ \A t \in Threads :
             bridge'.threads[t].pc \in {"block_on", "ran"}
               => bridge'.lazy = "complete" /\ bridge'.created = 1
        /\ bridge.lazy = "complete"
             => bridge'.lazy = "complete" /\ bridge'.created = bridge.created
        /\ \A t \in Threads :
             (bridge.threads[t].pc # "outside" /\ bridge'.threads[t].pc = "outside")
               => /\ bridge.threads[t].pc = "ran"
                  /\ bridge.threads[t].runs = 1
                  /\ last'.op = "block"
                  /\ last'.result = bridge.threads[t].outcome
      ]_vars

\* A first call found the cell being initialised by another thread, parked,
\* and its block() has returned
C23_Witness ==
    /\ last.op = "block"
    /\ last.waited
    /\ bridge.created = 1

(***************************************************************************)
(* Pool::new: the connection string is parsed, then the pool connects      *)
(***************************************************************************)

MaxUrlLen == 3
\* A letter, a digit and the two separators of a connection string
UrlChars == { "p", "9", ":", "/" }
Urls == SeqsUpTo(UrlChars, MaxUrlLen)

\* The position of the first c in text u, 0 when there is none
FirstOf(u, c) ==
    IF \E i \in 1 .. Len(u) : u[i] = c
    THEN CHOOSE i \in 1 .. Len(u) : u[i] = c /\ \A j \in 1 .. i - 1 : u[j] # c
    ELSE 0

\* The text u from position i on
From(u, i) == IF i > Len(u) THEN << >> ELSE SubSeq(u, i, Len(u))

\* host[:port] of a connection string: a port needs a host and is digits only
AuthorityOk(a) ==
    LET colon == FirstOf(a, ":") IN
    colon = 0 \/ (colon > 1 /\ \A j \in colon + 1 .. Len(a) : a[j] = "9")

\* database_url.parse::<PgConnectOptions>() is Ok: a scheme that starts with
\* a letter, a colon, and after "//" an authority up to the next "/"
ParseOk(u) ==
    LET colon == FirstOf(u, ":")
        rest == From(u, colon + 1)
        after == From(rest, 3)
        slash == FirstOf(after, "/")
        authority == IF slash = 0 THEN after ELSE SubSeq(after, 1, slash - 1)
    IN  /\ colon > 1
        /\ u[1] = "p"
        /\ \A j \in 1 .. colon - 1 : u[j] \in { "p", "9" }
        /\ (Len(rest) >= 2 /\ rest[1] = "/" /\ rest[2] = "/") => AuthorityOk(authority)

\* connect_with opens min_connections connections and at least one
ConnectWith_Lazy(reachable, min_idle) ==
    [attempts |-> 0, result |-> << "Ok", PoolWith(min_idle) >>]

\* connect_with opens min_connections connections and at least one
ConnectWith(reachable, min_idle) ==
    LET n == IF min_idle > 1 THEN min_idle ELSE 1 IN
    IF reachable
    THEN [attempts |-> n, result |-> << "Ok", PoolWith(n) >>]
    ELSE [attempts |-> 1, result |-> << "Err", "sqlx::Error" >>]

\* new_inner: what it returns and how many connections it tried to open
NewInner(database_url, reachable, min_idle) ==
    IF ~ParseOk(database_url)
    THEN [attempts |-> 0, result |-> << "Err", "InvalidDatabaseUrl" >>]
    ELSE LET c == ConnectWith(reachable, min_idle) IN
         IF c.result[1] = "Err"
         THEN [attempts |-> c.attempts, result |-> << "Err", "PoolCreationFailed" >>]
         ELSE c

\* Pool::new(config, metrics)
PoolNew(database_url, reachable, min_idle) ==
    \E r \in { NewInner(database_url, reachable, min_idle) } :
        /\ pool' = IF r.result[1] = "Ok" THEN r.result[2] ELSE pool
        /\ last' = [op |-> "Pool::new", database_url |-> database_url,
                    reachable |-> reachable, attempts |-> r.attempts,
                    result |-> r.result]
        /\ UNCHANGED <<storeVars, catalogVars, cascade, moreVars>>

NextPoolNew ==
    \E database_url \in Urls, reachable \in BOOLEAN, min_idle \in 0 .. MaxPoolSize :
        PoolNew(database_url, reachable, min_idle)

SpecPoolNew == Init /\ [][NextPoolNew]_vars

\* C24: Pool::new with a connection string that does not parse returns
\* InvalidDatabaseUrl and has tried no connection; with one that parses and
\* a backend that cannot be reached it returns PoolCreationFailed; in both
\* cases the result carries no Pool.
C24_PoolConstruction ==
    last.op = "Pool::new" =>
        /\ ~ParseOk(last.database_url)
             => last.result = << "Err", "InvalidDatabaseUrl" >> /\ last.attempts = 0
        /\ (ParseOk(last.database_url) /\ ~last.reachable)
             => last.result = << "Err", "PoolCreationFailed" >>
        /\ (~ParseOk(last.database_url) \/ ~last.reachable)
             => Len(last.result) = 2 /\ last.result[1] = "Err"

\* A connection string that does not parse, the backend up, and the call
\* returned without a connection attempt
C24_Witness ==
    /\ last.op = "Pool::new"
    /\ ~ParseOk(last.database_url)
    /\ last.reachable
    /\ last.attempts = 0

(***************************************************************************)
(* The blacklist: is_blacklisted, add_crate, remove_crate                  *)
(***************************************************************************)

BlacklistNames == { "crate foo", "crate bar", "crate A", "crate B" }

\* SELECT COUNT(*) ... WHERE crate_name = $1; count != 0
IsBlacklisted_Never(table, name) == FALSE

\* SELECT COUNT(*) ... WHERE crate_name = $1; count != 0
IsBlacklisted(table, name) == Cardinality({ n \in table : n = name }) # 0

\* INSERT INTO blacklisted_crates (crate_name) VALUES ($1): crate_name is
\* unique, a second row with the same name is refused
InsertBlacklisted(table, name) ==
    IF name \in table
    THEN [ok |-> FALSE, table |-> table]
    ELSE [ok |-> TRUE, table |-> table \cup {name}]

\* DELETE FROM blacklisted_crates WHERE crate_name = $1
DeleteBlacklisted(table, name) == { n \in table : n # name }

\* is_blacklisted(conn, name)
IsBlacklistedCall(name) ==
    /\ last' = [op |-> "is_blacklisted", name |-> name,
                result |-> << "Ok", IsBlacklisted(blacklisted_crates, name) >>]
    /\ UNCHANGED <<coreVars, procVars, blacklisted_crates, crate_priorities, sandbox_overrides>>

\* add_crate(conn, name)
AddCrate(name) ==
    /\ IF IsBlacklisted(blacklisted_crates, name)
       THEN /\ last' = [op |-> "add_crate", name |-> name,
                        result |-> << "Err", "CrateAlreadyOnBlacklist" >>]
            /\ UNCHANGED blacklisted_crates
       ELSE \E ins \in { InsertBlacklisted(blacklisted_crates, name) } :
            /\ blacklisted_crates' = ins.table
            /\ last' = [op |-> "add_crate", name |-> name,
                        result |-> IF ins.ok THEN << "Ok" >>
                                   ELSE << "Err", "sqlx::Error" >>]
    /\ UNCHANGED <<coreVars, procVars, crate_priorities, sandbox_overrides>>

\* remove_crate(conn, name)
RemoveCrate(name) ==
    /\ IF ~IsBlacklisted(blacklisted_crates, name)
       THEN /\ last' = [op |-> "remove_crate", name |-> name,
                        result |-> << "Err", "CrateNotOnBlacklist" >>]
            /\ UNCHANGED blacklisted_crates
       ELSE /\ blacklisted_crates' = DeleteBlacklisted(blacklisted_crates, name)
            /\ last' = [op |-> "remove_crate", name |-> name, result |-> << "Ok" >>]
    /\ UNCHANGED <<coreVars, procVars, crate_priorities, sandbox_overrides>>

NextBlacklist ==
    \/ \E name \in BlacklistNames : IsBlacklistedCall(name)
    \/ \E name \in BlacklistNames : AddCrate(name)
    \/ \E name \in BlacklistNames : RemoveCrate(name)

SpecBlacklist == Init /\ [][NextBlacklist]_vars

\* C25: add_crate(name) returns Ok exactly when name was not listed, and
\* then name is listed and nothing else changed; remove_crate(name) returns
\* Ok exactly when name was listed, and then name is not listed and nothing
\* else changed; an add of a listed name returns CrateAlreadyOnBlacklist, a
\* remove of an unlisted name CrateNotOnBlacklist, and both leave the table
\* as it was.
C25_BlacklistAddRemove ==
    [][ /\ last'.op = "add_crate" =>
             IF last'.name \in blacklisted_crates
             THEN /\ last'.result = << "Err", "CrateAlreadyOnBlacklist" >>
                  /\ blacklisted_crates' = blacklisted_crates
             ELSE /\ last'.result = << "Ok" >>
                  /\ blacklisted_crates' = blacklisted_crates \cup {last'.name}
        /\ last'.op = "remove_crate" =>
             IF last'.name \in blacklisted_crates
             THEN /\ last'.result = << "Ok" >>
                  /\ blacklisted_crates' = blacklisted_crates \ {last'.name}
             ELSE /\ last'.result = << "Err", "CrateNotOnBlacklist" >>
                  /\ blacklisted_crates' = blacklisted_crates
        /\ last'.op = "is_blacklisted" =>
             last'.result = << "Ok", last'.name \in blacklisted_crates >>
      ]_vars

\* An add of a name that is already listed has been refused
C25_Witness ==
    /\ last.op = "add_crate"
    /\ last.result = << "Err", "CrateAlreadyOnBlacklist" >>
    /\ last.name \in blacklisted_crates
    /\ Cardinality(blacklisted_crates) = 2

(***************************************************************************)
(* Build priorities: get, set and remove over table crate_priorities       *)
(***************************************************************************)

DEFAULT_PRIORITY == 0
\* The most rows table crate_priorities holds
MaxRows == 2

PriorityNames == SeqsUpTo({ "a", "_" }, 2)
Patterns ==
    { << "a", "%" >>, << "_" >>, << "a" >>, << "%" >>, << "\\", "a" >>, << "a", "\\" >> }
Priorities == { 0 - 100, 0, 10 }

\* The text s from its k-th character on, k >= 1
Suffix(s, k) == IF k > Len(s) THEN << >> ELSE SubSeq(s, k, Len(s))

\* s LIKE pat as PostgreSQL evaluates it: "t", "f", or "error" when the
\* matching arrives at a backslash that ends the pattern.  After a '%' the
\* rest of the pattern is tried at each position of s from left to right.
RECURSIVE LikeEval(_, _)
LikeEval(s, pat) ==
    IF pat = << >> THEN (IF s = << >> THEN "t" ELSE "f")
    ELSE IF s = << >>
    THEN (IF \A i \in 1 .. Len(pat) : pat[i] = "%" THEN "t" ELSE "f")
    ELSE IF Head(pat) = "\\"
    THEN IF Len(pat) < 2 THEN "error"
         ELSE IF Head(s) = pat[2] THEN LikeEval(Tail(s), Suffix(pat, 3))
         ELSE "f"
    ELSE IF Head(pat) = "%"
    THEN LET tries == [k \in 1 .. Len(s) + 1 |-> LikeEval(Suffix(s, k), Tail(pat))]
             decided == { k \in 1 .. Len(s) + 1 : tries[k] # "f" }
         IN  IF decided = {} THEN "f"
             ELSE tries[CHOOSE k \in decided : \A j \in decided : k <= j]
    ELSE IF Head(pat) = "_" THEN LikeEval(Tail(s), Tail(pat))
    ELSE IF Head(s) = Head(pat) THEN LikeEval(Tail(s), Tail(pat))
    ELSE "f"

\* SELECT priority FROM crate_priorities WHERE $1 LIKE pattern LIMIT 1:
\* the rows from the n-th on are scanned until one matches
RECURSIVE SelectPriority(_, _, _)
SelectPriority(table, name, n) ==
    IF n > Len(table) THEN << "Ok", << >> >>
    ELSE LET m == LikeEval(name, table[n].pattern) IN
         IF m = "error" THEN << "Err", "sqlx::Error" >>
         ELSE IF m = "t" THEN << "Ok", << table[n].priority >> >>
         ELSE SelectPriority(table, name, n + 1)

\* get_crate_priority(conn, name)
GetCratePriority(name) ==
    \E row \in { SelectPriority(crate_priorities, name, 1) } :
        /\ last' = [op |-> "get_crate_priority", name |-> name,
                    result |-> IF row[1] = "Err" THEN row
                               ELSE IF row[2] = << >> THEN << "Ok", DEFAULT_PRIORITY >>
                               ELSE << "Ok", row[2][1] >>]
        /\ UNCHANGED <<coreVars, procVars, blacklisted_crates, crate_priorities,
                       sandbox_overrides>>

\* The table with a row put at place i of the scan order
InsertAt(table, i, row) ==
    SubSeq(table, 1, i - 1) \o << row >> \o Suffix(table, i)

\* set_crate_priority(conn, pattern, priority): the new row goes wherever
\* the table has room for it
SetCratePriority(pattern, priority) ==
    /\ Len(crate_priorities) < MaxRows
    /\ \E i \in 1 .. Len(crate_priorities) + 1 :
           crate_priorities' =
               InsertAt(crate_priorities, i, [pattern |-> pattern, priority |-> priority])
    /\ last' = [op |-> "set_crate_priority", pattern |-> pattern, priority |-> priority,
                result |-> << "Ok" >>]
    /\ UNCHANGED <<coreVars, procVars, blacklisted_crates, sandbox_overrides>>

\* remove_crate_priority(conn, pattern): DELETE ... WHERE pattern = $1
\* RETURNING priority, the first returned row if there is one
RemoveCratePriority(pattern) ==
    LET Hit(r) == r.pattern = pattern
        Miss(r) == r.pattern # pattern
        removed == SelectSeq(crate_priorities, Hit)
    IN  /\ crate_priorities' = SelectSeq(crate_priorities, Miss)
        /\ last' = [op |-> "remove_crate_priority", pattern |-> pattern,
                    result |-> << "Ok", IF removed = << >> THEN << >>
                                        ELSE << removed[1].priority >> >>]
        /\ UNCHANGED <<coreVars, procVars, blacklisted_crates, sandbox_overrides>>

NextPriority ==
    \/ \E name \in PriorityNames : GetCratePriority(name)
    \/ \E pattern \in Patterns, priority \in Priorities : SetCratePriority(pattern, priority)
    \/ \E pattern \in Patterns : RemoveCratePriority(pattern)

SpecPriority == Init /\ [][NextPriority]_vars

\* The matching that C26 describes: '%' any run, '_' one character, every
\* other character itself
RECURSIVE StatedLike(_, _)
StatedLike(s, pat) ==
    IF pat = << >> THEN s = << >>
    ELSE IF Head(pat) = "%"
    THEN StatedLike(s, Tail(pat)) \/ (s # << >> /\ StatedLike(Tail(s), pat))
    ELSE IF Head(pat) = "_" THEN s # << >> /\ StatedLike(Tail(s), Tail(pat))
    ELSE s # << >> /\ Head(s) = Head(pat) /\ StatedLike(Tail(s), Tail(pat))

Num(gib, plus) == [over |-> 0, gib |-> gib, plus |-> plus]

\* Limits::default()
DefaultLimits ==
    [memory |-> Num(3, 0), timeout |-> Num(0, 15 * 60), targets |-> Num(0, 10),
     networking |-> FALSE, max_log_size |-> Num(0, 100 * 1024)]

\* v as usize, v as u64: a negative v becomes 2^64 + v
AsUnsigned(v) == IF v >= 0 THEN Num(0, v) ELSE [over |-> 1, gib |-> 0, plus |-> v]

\* The values a column of sandbox_overrides holds: NULL or a signed integer
MemoryColumn == { << >>, << 100000 >>, << 0 - 1 >> }
TimeoutColumn == { << >>, << 300 >>, << 0 - 1 >> }
TargetsColumn == { << >>, << 15 >>, << 0 - 1 >> }

\* INSERT INTO sandbox_overrides (crate_name, max_memory_bytes,
\* timeout_seconds, max_targets) for a crate that has no row
InsertOverride(name, memory, timeout, targets) ==
    /\ name \notin DOMAIN sandbox_overrides
    /\ sandbox_overrides' =
           [n \in DOMAIN sandbox_overrides \cup {name} |->
               IF n = name
               THEN [max_memory_bytes |-> memory, timeout_seconds |-> timeout,
                     max_targets |-> targets]
               ELSE sandbox_overrides[n]]
    /\ sandbox' = sandbox \cup {name}
    /\ last' = [op |-> "insert_override", name |-> name]
    /\ UNCHANGED <<storeVars, crates, releases, deps, owners, cascade, pool, clock,
                   dateUpdated, procVars, blacklisted_crates, crate_priorities>>

\* The limits for_crate builds from the row fetch_optional returned
LimitsFrom(record) ==
    IF record = << >> THEN DefaultLimits
    ELSE LET rec == record[1] IN
         [DefaultLimits EXCEPT
            !.memory = IF rec.max_memory_bytes # << >>
                       THEN AsUnsigned(rec.max_memory_bytes[1]) ELSE @,
            !.timeout = IF rec.timeout_seconds # << >>
                        THEN AsUnsigned(rec.timeout_seconds[1]) ELSE @,
            !.targets = IF rec.max_targets # << >> THEN AsUnsigned(rec.max_targets[1])
                        ELSE IF rec.timeout_seconds # << >> THEN Num(0, 1)
                        ELSE @]

\* Limits::for_crate(conn, name)
ForCrate(name) ==
    /\ last' = [op |-> "for_crate", name |-> name,
                result |-> LimitsFrom(IF name \in DOMAIN sandbox_overrides
                                      THEN << sandbox_overrides[name] >> ELSE << >>)]
    /\ UNCHANGED <<coreVars, sideVars>>

NextLimits ==
    \/ \E name \in CrateNames, memory \in MemoryColumn, timeout \in TimeoutColumn,
          targets \in TargetsColumn : InsertOverride(name, memory, timeout, targets)
    \/ \E name \in CrateNames : ForCrate(name)

SpecLimits == Init /\ [][NextLimits]_vars

WithDeleter(c, rec) == [deleters EXCEPT ![c] = rec]

\* delete_crate / delete_version is called with the caller's connection
DeleterStarts(c) ==
    /\ pool.at[c] = "leased"
    /\ deleters[c].phase = "none"
    /\ deleters' = WithDeleter(c, [phase |-> "metadata"])
    /\ last' = [op |-> "call_delete", caller |-> c]
    /\ UNCHANGED <<coreVars, bridge, adders, blacklisted_crates, crate_priorities,
                   sandbox_overrides>>

\* The relational transaction on the caller's connection has ended: the
\* handler goes on to the blob phase, or returns the error
DeleterMetadata(c, ok) ==
    /\ deleters[c].phase = "metadata"
    /\ deleters' = WithDeleter(c, IF ok THEN [phase |-> "blob",
                                              left |-> Len(STORAGE_PATHS_TO_DELETE)]
                                  ELSE NoDelete)
    /\ last' = IF ok THEN [op |-> "metadata_phase", caller |-> c]
               ELSE [op |-> "delete", caller |-> c, result |-> "Err"]
    /\ UNCHANGED <<coreVars, bridge, adders, blacklisted_crates, crate_priorities,
                   sandbox_overrides>>

\* What the caller does after self.pool.get() in start_connection came to a:
\* it holds a second connection, waits for one, or returns the error
AfterBlobGet(c, a, k) ==
    IF a.r = "Ok"
    THEN /\ pool' = [a.p EXCEPT !.at[c] = "leased"]
         /\ deleters' = WithDeleter(c, [phase |-> "blob_tx", left |-> deleters[c].left,
                                        conn |-> k])
         /\ last' = [op |-> "start_connection", caller |-> c, result |-> a.r]
    ELSE IF a.r = "waiting"
    THEN /\ pool' = [a.p EXCEPT !.at[c] = "waiting_more"]
         /\ UNCHANGED deleters
         /\ last' = [op |-> "start_connection", caller |-> c, result |-> a.r]
    ELSE /\ pool' = [a.p EXCEPT !.at[c] = "leased"]
         /\ deleters' = WithDeleter(c, NoDelete)
         /\ last' = [op |-> "delete", caller |-> c, result |-> a.r]

\* storage.delete_prefix: start_connection asks the pool for a connection
\* while the caller's catalog connection stays leased
DeleterBlobGet(c, k, ok) ==
    /\ deleters[c].phase = "blob"
    /\ pool.at[c] = "leased"
    /\ \E a \in { Acquire(pool, c, k, ok) } :
         /\ a.r # "none"
         /\ AfterBlobGet(c, a, k)
    /\ UNCHANGED <<storeVars, catalogVars, cascade, clock, dateUpdated, bridge, adders,
                   blacklisted_crates, crate_priorities, sandbox_overrides>>

\* A caller queued in start_connection is woken
DeleterBlobWake(c, k, ok) ==
    /\ deleters[c].phase = "blob"
    /\ pool.at[c] = "waiting_more"
    /\ \E a \in { Acquire(pool, c, k, ok) } :
         /\ a.r \in {"Ok", "ClientError(Io)"}
         /\ AfterBlobGet(c, a, k)
    /\ UNCHANGED <<storeVars, catalogVars, cascade, clock, dateUpdated, bridge, adders,
                   blacklisted_crates, crate_priorities, sandbox_overrides>>

\* acquire gives up after connect_timeout: the handler returns the error
DeleterBlobTimeout(c) ==
    /\ deleters[c].phase = "blob"
    /\ pool.at[c] = "waiting_more"
    /\ pool' = [pool EXCEPT !.at[c] = "leased"]
    /\ deleters' = WithDeleter(c, NoDelete)
    /\ last' = [op |-> "delete", caller |-> c, result |-> "ClientError(PoolTimedOut)"]
    /\ UNCHANGED <<storeVars, catalogVars, cascade, clock, dateUpdated, bridge, adders,
                   blacklisted_crates, crate_priorities, sandbox_overrides>>

\* The Storage Transaction of one delete_prefix ended and its DatabaseClient
\* is dropped: the connection is idle again; the handler goes to the next
\* prefix or returns
DeleterBlobDone(c, ok) ==
    /\ deleters[c].phase = "blob_tx"
    /\ pool' = [pool EXCEPT !.idle = @ \cup {deleters[c].conn},
                            !.leases = @ \ { << deleters[c].conn, c >> }]
    /\ IF ok /\ deleters[c].left > 1
       THEN /\ deleters' = WithDeleter(c, [phase |-> "blob", left |-> deleters[c].left - 1])
            /\ last' = [op |-> "delete_prefix", caller |-> c]
       ELSE /\ deleters' = WithDeleter(c, NoDelete)
            /\ last' = [op |-> "delete", caller |-> c,
                        result |-> IF ok THEN "Ok" ELSE "Err"]
    /\ UNCHANGED <<storeVars, catalogVars, cascade, clock, dateUpdated, bridge, adders,
                   blacklisted_crates, crate_priorities, sandbox_overrides>>

\* The caller drops its catalog connection; it cannot while a handler
\* borrows it
DeleterRelease(c) ==
    /\ deleters[c].phase = "none"
    /\ Release(c)

NextDeleteCallers ==
    \/ \E c \in Callers, k \in ConnIds, ok \in BOOLEAN : PoolGet(c, k, ok)
    \/ \E c \in Callers, k \in ConnIds, ok \in BOOLEAN : PoolWake(c, k, ok)
    \/ \E c \in Callers : PoolTimeout(c)
    \/ \E c \in Callers : DeleterStarts(c)
    \/ \E c \in Callers, ok \in BOOLEAN : DeleterMetadata(c, ok)
    \/ \E c \in Callers, k \in ConnIds, ok \in BOOLEAN : DeleterBlobGet(c, k, ok)
    \/ \E c \in Callers, k \in ConnIds, ok \in BOOLEAN : DeleterBlobWake(c, k, ok)
    \/ \E c \in Callers : DeleterBlobTimeout(c)
    \/ \E c \in Callers, ok \in BOOLEAN : DeleterBlobDone(c, ok)
    \/ \E c \in Callers : DeleterRelease(c)

SpecDeleteCallers == InitPool /\ [][NextDeleteCallers]_vars

\* The callers that hold a connection
Holders == { l[2] : l \in pool.leases }

\* C28: the pool is never in the state where it is at its maximum, every
\* connection is held by a caller, and every one of those callers is inside
\* a deletion waiting for a further connection.
C28_DeletionDeadlockFree ==
    ~ /\ Cardinality(pool.live) = MaxPoolSize
      /\ pool.idle = {}
      /\ Holders # {}
      /\ \A c \in Holders : pool.at[c] = "waiting_more"

(***************************************************************************)
(* delete_crate by several callers: get_id runs before the transaction     *)
(***************************************************************************)

\* delete_crate(conn, storage, name) by caller c up to the return of get_id:
\* Err(MissingCrate), or the id to delete
RaceGetId(c, name) ==
    /\ deleters[c].phase = "none"
    /\ LET id == GetId(crates, name)
       IN  IF id = << >>
           THEN /\ last' = [op |-> "delete_crate", name |-> name, version |-> << >>,
                            result |-> "MissingCrate", dirty |-> FALSE, calls |-> 0]
                /\ UNCHANGED deleters
           ELSE /\ last' = [op |-> "get_id", name |-> name, caller |-> c]
                /\ deleters' = WithDeleter(c, [phase |-> "got_id", name |-> name,
                                               id |-> id[1], other_ok |-> FALSE])
    /\ UNCHANGED <<coreVars, bridge, adders, blacklisted_crates, crate_priorities,
                   sandbox_overrides>>

\* The rest of delete_crate by caller c: delete_crate_from_database with the
\* id it holds, then the blob phase.  A caller still between its get_id and
\* its transaction for the same name notes that this call returned Ok.
RaceCascade(c) ==
    /\ deleters[c].phase = "got_id"
    /\ Cascade("delete_crate", deleters[c].name, << >>,
               CrateStatements(deleters[c].name, deleters[c].id),
               [i \in 1 .. Len(STORAGE_PATHS_TO_DELETE) |->
                   << STORAGE_PATHS_TO_DELETE[i], "/" >> \o deleters[c].name \o << "/" >>],
               0, 0)
    /\ deleters' = [d \in Callers |->
                      IF d = c THEN NoDelete
                      ELSE IF /\ deleters[d].phase = "got_id"
                              /\ deleters[d].name = deleters[c].name
                              /\ last'.result = "Ok"
                      THEN [deleters[d] EXCEPT !.other_ok = TRUE]
                      ELSE deleters[d]]
    /\ UNCHANGED <<txState, txFiles, batchFailed, cascade, pool, clock, dateUpdated, bridge,
                   adders,
                   blacklisted_crates, crate_priorities, sandbox_overrides>>

NextDeleteRace ==
    \/ \E c \in Callers, name \in CrateNames : RaceGetId(c, name)
    \/ \E c \in Callers : RaceCascade(c)

SpecDeleteRace == InitDelete /\ [][NextDeleteRace]_vars

\* C29: a delete_crate that returns Ok has removed the row of its crate
\* itself, and a delete_crate that ran while another delete_crate of the
\* same name returned Ok returns MissingCrate.
C29_ConcurrentDeleteCrate ==
    [][ \A c \in Callers :
          (deleters[c].phase = "got_id" /\ deleters'[c].phase = "none")
            => /\ last'.result = "Ok"
                    => /\ deleters[c].name \in DOMAIN crates
                       /\ deleters[c].name \notin DOMAIN crates'
               /\ deleters[c].other_ok => last'.result = "MissingCrate"
      ]_vars

\* The blobs of package name: the paths under <area>/<name>/ of a storage area
OwnBlob(p, name) ==
    \E i \in 1 .. Len(STORAGE_PATHS_TO_DELETE) :
        StartsWith(p, << STORAGE_PATHS_TO_DELETE[i], "/" >> \o name \o << "/" >>)

\* C30: delete_crate(name) and delete_version(name, v) remove no blob but
\* blobs of package name: every path they take out of table files lies
\* under <area>/<name>/.
C30_BlobFrame ==
    [][ last'.op \in DeleteOps
        => \A p \in DOMAIN files : p \notin DOMAIN files' => OwnBlob(p, last'.name) ]_vars

(***************************************************************************)
(* add_crate by several callers: the check and the INSERT are two          *)
(* statements, each committed on its own                                   *)
(***************************************************************************)

\* add_crate(conn, name) by caller c up to the return of is_blacklisted:
\* Err(CrateAlreadyOnBlacklist), or the caller goes on to its INSERT
AdderChecks(c, name) ==
    /\ adders[c].phase = "none"
    /\ IF IsBlacklisted(blacklisted_crates, name)
       THEN /\ last' = [op |-> "add_crate", name |-> name, caller |-> c,
                        result |-> << "Err", "CrateAlreadyOnBlacklist" >>]
            /\ UNCHANGED adders
       ELSE /\ last' = [op |-> "is_blacklisted", name |-> name, caller |-> c,
                        result |-> << "Ok", FALSE >>]
            /\ adders' = [adders EXCEPT ![c] = [phase |-> "checked", name |-> name]]
    /\ UNCHANGED <<coreVars, bridge, deleters, blacklisted_crates, crate_priorities,
                   sandbox_overrides>>

\* The INSERT of add_crate by caller c and its return: Ok(()), or the
\* error of the statement through `?`
AdderInserts(c) ==
    /\ adders[c].phase = "checked"
    /\ \E ins \in { InsertBlacklisted(blacklisted_crates, adders[c].name) } :
         /\ blacklisted_crates' = ins.table
         /\ last' = [op |-> "add_crate", name |-> adders[c].name, caller |-> c,
                     result |-> IF ins.ok THEN << "Ok" >> ELSE << "Err", "sqlx::Error" >>]
    /\ adders' = [adders EXCEPT ![c] = NoAdd]
    /\ UNCHANGED <<coreVars, bridge, deleters, crate_priorities, sandbox_overrides>>

NextBlacklistRace ==
    \/ \E c \in Callers, name \in BlacklistNames : AdderChecks(c, name)
    \/ \E c \in Callers : AdderInserts(c)

SpecBlacklistRace == Init /\ [][NextBlacklistRace]_vars

\* C31: an add_crate(name) that returns Ok found name unlisted at its
\* INSERT and has listed it, so of the calls that run together one returns
\* Ok; every other add_crate(name) returns CrateAlreadyOnBlacklist and
\* leaves the table as it was.
C31_ConcurrentBlacklistAdd ==
    [][ last'.op = "add_crate" =>
          IF last'.result = << "Ok" >>
          THEN /\ last'.name \notin blacklisted_crates
               /\ blacklisted_crates' = blacklisted_crates \cup {last'.name}
          ELSE /\ last'.result = << "Err", "CrateAlreadyOnBlacklist" >>
               /\ blacklisted_crates' = blacklisted_crates
      ]_vars

====
